---- MODULE Spec2Model ----
(***************************************************************************)
(* Verification model of the drone perception pipeline:                    *)
(*   - data_module/excel_logger.py        (ExcelLogger, the Detection Log) *)
(*   - flight_controller_module/*.py      (MAVLinkHandler, GPS processor)  *)
(*   - main_controller.py                 (capture loop, worker, shutdown) *)
(*                                                                         *)
(* A latitude or longitude is a record [e7, d8]: the value                 *)
(* (e7 + d8/10) * 10^-7 degree, with d8 in 0..9 its eighth decimal.        *)
(* Files are modelled by their logical content: the workbook is the        *)
(* sequence of its rows, the coordinate file the sequence of its lines.    *)
(***************************************************************************)
EXTENDS Integers, Sequences, FiniteSets, TLC

\* ------------------------------------------------------------------------
\* Bounds of the model
\* ------------------------------------------------------------------------

\* Largest number of log_detection calls in one run of the Detection Log.
MaxRecords == 6

\* Largest number of file operations that fail in one run.
MaxFaults == 2

\* Last instant of the clock, in seconds since the start of the run.
MaxTime == 6

\* Largest number of telemetry messages waiting unread on the link.
MaxRx == 1

\* Capacity of the processing queue in the runs that scale it down.
SmallQueue == 1

\* Connection attempts allowed in the runs that scale max_retries down.
FewRetries == 1

\* Largest number of detections the worker logs in one run of the pipeline.
MaxLogged == 1

\* Largest number of candidates of one frame in the runs of the worker.
MaxCandidates == 2

\* Largest number of frames queued at the start of the runs of the worker.
MaxFrames == 2

\* Largest number of contours of one frame in the runs of the detector.
MaxContours == 2

\* Longest text in the runs of the text functions.
MaxTextLen == 3

\* Largest value of frame_count the runs tell apart.
MaxCounted == 2

\* Number of steps of 10^-7 degree the coordinates of the runs of the
\* encoder take from each of their starting points.
MaxStep == 1

\* ------------------------------------------------------------------------
\* Program constants
\* ------------------------------------------------------------------------

\* excel_logger.py:92   if len(self.data_buffer) >= 5
BatchSize == 5

\* symbol_id = None: a value outside the table's IDs 0..35
None == -1

\* mavlink_handler.py:108   time.time() - timestamp < 5.0   (seconds)
StaleAfter == 5

\* main_controller.py:258, gps_data.py:21   fix_quality < 3
MinFixQuality == 3

\* last_gps_data = None, and the None returned by get_current_gps
NoData == [absent |-> TRUE]

\* main_controller.py:26   queue.Queue(maxsize=20)
QueueMaxSize == 20

\* main_controller.py:116   max_retries = 60
MaxRetries == 60

\* main_controller.py:301   self.processing_queue.put(None)
Sentinel == [sentinel |-> TRUE]

\* config.py:57   "min_confidence": 0.8, in hundredths
MinConfidence == 80

\* ------------------------------------------------------------------------
\* State
\* ------------------------------------------------------------------------
VARIABLES
    data_buffer,    \* ExcelLogger.data_buffer: rows not yet written
    csv_buffer,     \* ExcelLogger.csv_buffer: coordinate entries not yet written
    workbook,       \* rows of the per-flight workbook file
    csvfile,        \* lines of objects-coordinates.csv
    recorded,       \* history: detections appended by log_detection, in order
    last_call,      \* history: what the last Detection Log operation did
    faults,         \* history: number of file operations that failed so far
    now,            \* time.time(), in whole seconds
    tick_len,       \* resolution of the clock of this run, in seconds
    connected,      \* MAVLinkHandler.connected
    last_gps_data,  \* MAVLinkHandler.last_gps_data
    rx,             \* messages received on the link and not yet read
    last_heartbeat, \* history: arm flag of the last HEARTBEAT the link received
    last_fix_type,  \* history: fix_type of the last GPS_RAW_INT the handler
                    \* processed, -1 before the first
    gps_data,       \* the value returned by the last get_current_gps()
    armed,          \* the value returned by the last is_armed()
    feed,           \* the messages the flight controller sends in this run
    running,        \* DroneVisionController.running
    status,         \* DroneVisionController.status
    components,     \* outcome of initialize_components()
    processing_queue, \* DroneVisionController.processing_queue
    maxsize,        \* processing_queue.maxsize
    max_retries,    \* max_retries of wait_for_flight_controller
    retry_count,    \* retry_count of wait_for_flight_controller
    mpc,            \* where the main thread is in main_loop
    hpc,            \* where the main thread is in graceful_shutdown
    exiting,        \* SystemExit is propagating through main_loop
    current_time,   \* current_time of the tick of main_loop
    last_put,       \* outcome of the put_nowait of the tick
    wpc,            \* where the worker thread is in process_frame_worker
    frame_data,     \* the item the worker took from the queue
    scene,          \* the candidate lists the frames of this run can yield
    log_limit,      \* largest number of detections logged in this run
    last_frame,     \* history: what process_single_frame did with its frame
    frame_count,    \* frame_count of main_loop, counted up to MaxCounted
    contours,       \* the contours handed to analyze_contours
    detections,     \* the list analyze_contours returned
    features,       \* the arguments of calculate_detection_confidence
    confidence,     \* the value calculate_detection_confidence returned
    text,           \* the argument of clean_armenian_text and get_symbol_id
    cleaned,        \* the value clean_armenian_text returned
    symbol_id,      \* the value get_symbol_id returned
    ocr_input,      \* the region and the engine of recognize_armenian_text
    ocr_result,     \* the outcome of recognize_armenian_text
    coords,         \* the arguments lat, lon of format_for_competition
    encoded         \* the pair format_for_competition returned

logVars == <<data_buffer, csv_buffer, workbook, csvfile, recorded, last_call,
             faults>>

telVars == <<now, connected, last_gps_data, rx, last_heartbeat,
             last_fix_type, gps_data, armed, feed, tick_len>>

loopVars == <<running, status, components, processing_queue, maxsize,
              max_retries, retry_count, mpc, hpc, exiting, current_time,
              last_put, wpc, frame_data, scene, log_limit, last_frame,
              frame_count>>

visVars == <<contours, detections, features, confidence, text, cleaned,
             symbol_id, ocr_input, ocr_result>>

fmtVars == <<coords, encoded>>

vars == <<data_buffer, csv_buffer, workbook, csvfile, recorded, last_call,
          faults, now, tick_len, connected, last_gps_data, rx, last_heartbeat,
          last_fix_type, gps_data, armed, feed, running, status, components,
          processing_queue, maxsize, max_retries, retry_count, mpc, hpc,
          exiting, current_time, last_put, wpc, frame_data, scene, log_limit,
          last_frame, frame_count, contours, detections, features,
          confidence, text, cleaned, symbol_id, ocr_input, ocr_result,
          coords, encoded>>

\* ------------------------------------------------------------------------
\* Helpers
\* ------------------------------------------------------------------------

\* The coordinate (e7 + d8/10) * 10^-7 degree.
Deg(e7, d8) == [e7 |-> e7, d8 |-> d8]

\* Where the double x * 1e7 of a coordinate x whose eighth decimal is 5
\* lies: on the tie e7 + 0.5, or "below" or "above" it when the product
\* was rounded (the field prod of the coordinates that record it).
ProductAt(c) == IF "prod" \in DOMAIN c THEN c.prod ELSE "tie"

\* int(lat * 1e7) without round(): the integer below.
RoundE7_trunc(c) == c.e7

\* Python round(x * 1e7) of a coordinate: to the nearest integer, a tie
\* of the double x * 1e7 to the even one.
RoundE7(c) ==
    IF c.d8 < 5 THEN c.e7
    ELSE IF c.d8 > 5 THEN c.e7 + 1
    ELSE IF ProductAt(c) = "below" THEN c.e7
    ELSE IF ProductAt(c) = "above" THEN c.e7 + 1
    ELSE IF c.e7 % 2 = 0 THEN c.e7 ELSE c.e7 + 1

\* Python round(x, 7) of a coordinate, in units of 10^-7 degree: the
\* nearest multiple of 10^-7 to the double x, which lies "below" or
\* "above" the decimal it stands for, or is "exact" (the field bin).
Round7(c) ==
    IF c.d8 < 5 THEN c.e7
    ELSE IF c.d8 > 5 THEN c.e7 + 1
    ELSE IF c.bin = "below" THEN c.e7
    ELSE IF c.bin = "above" THEN c.e7 + 1
    ELSE IF c.e7 % 2 = 0 THEN c.e7 ELSE c.e7 + 1

\* lat_e7 / 1e7: the coordinate of lat_e7 units of 10^-7 degree.
Decode(lat_e7) == [e7 |-> lat_e7, d8 |-> 0, prod |-> "tie", bin |-> "exact"]

\* Python round(x, 8) of a coordinate: nothing lies beyond its eighth decimal.
Round8(c) == Deg(c.e7, c.d8)

IsPrefix(s, t) ==
    /\ Len(s) <= Len(t)
    /\ SubSeq(t, 1, Len(s)) = s

\* ------------------------------------------------------------------------
\* GPSDataProcessor
\* ------------------------------------------------------------------------

\* lat_e7 = int(round(lat * 1e7)), lon_e7 = int(round(lon * 1e7))
format_for_competition(lat, lon) == <<RoundE7(lat), RoundE7(lon)>>

\* How the doubles of a coordinate whose eighth decimal is 5 can lie:
\* <<prod, bin>>.  A rounded product lies on the side of the double x.
HalfwayCases ==
    { <<"tie", "below">>, <<"tie", "above">>, <<"tie", "exact">>,
      <<"below", "below">>, <<"above", "above">> }

\* The coordinates of n eighth decimals from each e7 of the set around:
\* the eighth decimals 0, 4, 5 and 6, and every case of a 5.
CoordsAround(around, n) ==
    UNION { { [e7 |-> b + k, d8 |-> d, prod |-> "tie", bin |-> "exact"] :
                d \in {0, 4, 6} }
            \cup { [e7 |-> b + k, d8 |-> 5, prod |-> h[1], bin |-> h[2]] :
                     h \in HalfwayCases } :
            b \in around, k \in 0 .. n }

\* Latitudes within [-90, 90], longitudes within [-180, 180].
Latitudes(n) ==
    { c \in CoordsAround({-900000000, 734154402, 899999999 - n}, n) :
        c.e7 < 900000000 }
        \cup { [e7 |-> 900000000, d8 |-> 0, prod |-> "tie", bin |-> "exact"] }

Longitudes(n) ==
    CoordsAround({-1800000000, 445000001}, n)
        \cup { [e7 |-> 1800000000, d8 |-> 0, prod |-> "tie", bin |-> "exact"] }

\* A call of format_for_competition on the coordinates.
CallFormat ==
    /\ coords # NoData
    /\ encoded' = format_for_competition(coords.lat, coords.lon)
    /\ UNCHANGED coords
    /\ UNCHANGED <<logVars, telVars, loopVars, visVars>>

\* The caller goes on to other coordinates.
NextCoords ==
    /\ encoded # NoData
    /\ \E lat \in Latitudes(MaxStep), lon \in Longitudes(MaxStep) :
          coords' = [lat |-> lat, lon |-> lon]
    /\ encoded' = NoData
    /\ UNCHANGED <<logVars, telVars, loopVars, visVars>>

NextFormat ==
    \/ CallFormat
    \/ NextCoords

\* ------------------------------------------------------------------------
\* ExcelLogger
\* ------------------------------------------------------------------------

\* The detections the worker hands to log_detection: one whose symbol is
\* not in the table (symbol_id None) and one whose symbol is.
Detections ==
    { [symbol_id |-> None, lat |-> Deg(401234567, 0), lon |-> Deg(445000001, 0)],
      [symbol_id |-> 35,   lat |-> Deg(401234567, 4), lon |-> Deg(-445000002, 6)] }

\* detection_data: the workbook row of a detection.  seq stands for the
\* columns that tell two detections apart (Timestamp, Image_Path).
detection_data(d, seq) ==
    [seq       |-> seq,
     Symbol_ID |-> d.symbol_id,
     GPS_Lat   |-> Round8(d.lat),
     GPS_Lon   |-> Round8(d.lon)]

competition_entry(d) ==
    LET e7 == format_for_competition(d.lat, d.lon)
    IN  [symbol_id |-> d.symbol_id, lat_e7 |-> e7[1], lon_e7 |-> e7[2]]

\* f"{entry['symbol_id']},{entry['lat_e7']},{entry['lon_e7']}\n"
csv_line(e) == <<e.symbol_id, e.lat_e7, e.lon_e7>>

\* The lines flush_to_competition_csv writes for the entries of cbuf.
csv_lines(cbuf) == [i \in 1 .. Len(cbuf) |-> csv_line(cbuf[i])]

\* Outcome of the file I/O of one flush_to_excel call: whether
\* pd.read_excel and DataFrame.to_excel succeed.
ExcelIO(buf) ==
    IF buf = <<>>
    THEN {[read_ok |-> TRUE, write_ok |-> TRUE]}
    ELSE [read_ok : BOOLEAN, write_ok : BOOLEAN]

\* Outcome of the file I/O of one flush_to_competition_csv call over a
\* buffer of n entries: ok, or an error after `written` lines reached the file.
CsvIO(cbuf) ==
    IF cbuf = <<>>
    THEN {[ok |-> TRUE, written |-> 0]}
    ELSE {[ok |-> TRUE, written |-> Len(cbuf)]}
           \cup [ok : {FALSE}, written : 0 .. Len(cbuf)]

\* Number of failed file operations in the outcomes xio and cio.
Failures(xio, cio) ==
    (IF xio.read_ok THEN 0 ELSE 1) + (IF xio.write_ok THEN 0 ELSE 1)
      + (IF cio.ok THEN 0 ELSE 1)

ExcelOk == [read_ok |-> TRUE, write_ok |-> TRUE]

\* A flush that clears the buffer whether or not the write succeeded.
FlushExcel_clears(buf, wb, io) ==
    IF buf = <<>>
    THEN [buf |-> buf, wb |-> wb, flushed |-> FALSE]
    ELSE LET existing_df == IF io.read_ok THEN wb ELSE <<>>
         IN  IF io.write_ok
             THEN [buf |-> <<>>, wb |-> existing_df \o buf, flushed |-> TRUE]
             ELSE [buf |-> <<>>, wb |-> wb, flushed |-> FALSE]

\* flush_to_excel on buffer buf and workbook wb.
FlushExcel(buf, wb, io) ==
    IF buf = <<>>
    THEN [buf |-> buf, wb |-> wb, flushed |-> FALSE]
    ELSE LET existing_df == IF io.read_ok THEN wb ELSE <<>>
             combined_df == existing_df \o buf
         IN  IF io.write_ok
             THEN [buf |-> <<>>, wb |-> combined_df, flushed |-> TRUE]
             ELSE [buf |-> buf, wb |-> wb, flushed |-> FALSE]

\* flush_to_competition_csv on buffer cbuf and file content file.
FlushCsv(cbuf, file, io) ==
    IF cbuf = <<>>
    THEN [buf |-> cbuf, file |-> file]
    ELSE LET lines == csv_lines(cbuf)
         IN  IF io.ok
             THEN [buf |-> <<>>, file |-> file \o lines]
             ELSE [buf |-> cbuf, file |-> file \o SubSeq(lines, 1, io.written)]

\* The buffers data and csv after the appends of log_detection(d), d being
\* the seq-th detection of the run.
AppendedTo(data, csv, seq, d) ==
    [data |-> Append(data, detection_data(d, seq)),
     csv  |-> IF d.symbol_id # None
              THEN Append(csv, competition_entry(d))
              ELSE csv]

\* data_buffer and csv_buffer after the appends of log_detection(d).
Appended(d) == AppendedTo(data_buffer, csv_buffer, Len(recorded) + 1, d)

\* A log that flushes one record late.
BatchReached_late(buf) == Len(buf) > BatchSize

\* if len(self.data_buffer) >= 5
BatchReached(buf) == Len(buf) >= BatchSize

\* log_detection(d) on the Detection Log whose buffers are a.data and a.csv
\* after the appends and whose files hold wb and file.
LogDetectionOn(a, wb, file, xio, cio) ==
    IF BatchReached(a.data)
    THEN LET x == FlushExcel(a.data, wb, xio)
             c == FlushCsv(a.csv, file, cio)
         IN  [data |-> x.buf, wb |-> x.wb, csv |-> c.buf, file |-> c.file,
              auto_flush |-> 1]
    ELSE [data |-> a.data, wb |-> wb, csv |-> a.csv, file |-> file,
          auto_flush |-> 0]

\* The state of the Detection Log after log_detection(d).
LogDetection(d, xio, cio) ==
    LogDetectionOn(Appended(d), workbook, csvfile, xio, cio)

\* History of the last operation: its name and, for log_detection, the
\* length of data_buffer at entry, whether its file I/O succeeded, whether
\* the workbook write of its flush did, and how many times it called
\* flush_to_excel.
LastCall(op, xio, cio, n) ==
    [op         |-> op,
     pre_data   |-> IF op = "log_detection" THEN Len(data_buffer) ELSE 0,
     io_ok      |-> Failures(xio, cio) = 0,
     write_ok   |-> xio.write_ok,
     auto_flush |-> n]

log_detection ==
    /\ Len(recorded) < MaxRecords
    /\ \E d \in Detections :
         LET a == Appended(d)
         IN  \E xio \in ExcelIO(IF BatchReached(a.data) THEN a.data ELSE <<>>),
                cio \in CsvIO(IF BatchReached(a.data) THEN a.csv ELSE <<>>) :
               LET r == LogDetection(d, xio, cio)
               IN  /\ faults + Failures(xio, cio) <= MaxFaults
                   /\ data_buffer' = r.data
                   /\ workbook'    = r.wb
                   /\ csv_buffer'  = r.csv
                   /\ csvfile'     = r.file
                   /\ recorded'    = Append(recorded, d)
                   /\ faults'      = faults + Failures(xio, cio)
                   /\ last_call'   = LastCall("log_detection", xio, cio,
                                              r.auto_flush)
    /\ UNCHANGED <<telVars, loopVars, visVars, fmtVars>>

flush_to_excel ==
    /\ \E xio \in ExcelIO(data_buffer) :
          LET x   == FlushExcel(data_buffer, workbook, xio)
              cio == [ok |-> TRUE, written |-> 0]
          IN  /\ faults + Failures(xio, cio) <= MaxFaults
              /\ data_buffer' = x.buf
              /\ workbook'    = x.wb
              /\ faults'      = faults + Failures(xio, cio)
              /\ last_call'   = LastCall("flush_to_excel", xio, cio, 0)
    /\ UNCHANGED <<csv_buffer, csvfile, recorded>>
    /\ UNCHANGED <<telVars, loopVars, visVars, fmtVars>>

flush_to_competition_csv ==
    /\ \E cio \in CsvIO(csv_buffer) :
          LET c == FlushCsv(csv_buffer, csvfile, cio)
          IN  /\ faults + Failures(ExcelOk, cio) <= MaxFaults
              /\ csv_buffer' = c.buf
              /\ csvfile'    = c.file
              /\ faults'     = faults + Failures(ExcelOk, cio)
              /\ last_call'  = LastCall("flush_to_competition_csv", ExcelOk,
                                        cio, 0)
    /\ UNCHANGED <<data_buffer, workbook, recorded>>
    /\ UNCHANGED <<telVars, loopVars, visVars, fmtVars>>

\* close(): flush_to_excel, flush_to_competition_csv, create_summary_report
\* (the summary only reads the workbooks and writes summary_report.xlsx).
close ==
    /\ \E xio \in ExcelIO(data_buffer), cio \in CsvIO(csv_buffer) :
          LET x == FlushExcel(data_buffer, workbook, xio)
              c == FlushCsv(csv_buffer, csvfile, cio)
          IN  /\ faults + Failures(xio, cio) <= MaxFaults
              /\ data_buffer' = x.buf
              /\ workbook'    = x.wb
              /\ csv_buffer'  = c.buf
              /\ csvfile'     = c.file
              /\ faults'      = faults + Failures(xio, cio)
              /\ last_call'   = LastCall("close", xio, cio, 0)
    /\ UNCHANGED recorded
    /\ UNCHANGED <<telVars, loopVars, visVars, fmtVars>>

\* ExcelLogger.__init__: empty buffers, a workbook with only the header
\* row, an empty coordinate file.
InitLog ==
    /\ data_buffer = <<>>
    /\ csv_buffer  = <<>>
    /\ workbook    = <<>>
    /\ csvfile     = <<>>
    /\ recorded    = <<>>
    /\ last_call   = [op |-> "init", pre_data |-> 0, io_ok |-> TRUE,
                      write_ok |-> TRUE, auto_flush |-> 0]
    /\ faults      = 0

NextLog ==
    \/ log_detection
    \/ flush_to_excel
    \/ flush_to_competition_csv
    \/ close

\* ------------------------------------------------------------------------
\* Rational numbers
\* ------------------------------------------------------------------------

RECURSIVE GCD(_, _)
GCD(a, b) == IF b = 0 THEN a ELSE GCD(b, a % b)

Abs(x) == IF x < 0 THEN -x ELSE x

\* The rational number n/d (d > 0), in lowest terms.
Rat(n, d) ==
    LET g == GCD(Abs(n), d)
    IN  [num |-> n \div g, den |-> d \div g]

RAdd(p, q) == Rat(p.num * q.den + q.num * p.den, p.den * q.den)

RSub(p, q) == Rat(p.num * q.den - q.num * p.den, p.den * q.den)

RLe(p, q) == p.num * q.den <= q.num * p.den

RLt(p, q) == p.num * q.den < q.num * p.den

RMin(p, q) == IF RLe(p, q) THEN p ELSE q

RAbs(p) == [num |-> Abs(p.num), den |-> p.den]

\* p / k for an integer k > 0
RDivInt(p, k) == Rat(p.num, p.den * k)

\* ------------------------------------------------------------------------
\* MAVLinkHandler
\* ------------------------------------------------------------------------

\* MAVLinkHandler.__init__, before connect()
InitTelemetry ==
    /\ now = 0
    /\ connected = FALSE
    /\ last_gps_data = NoData
    /\ rx = <<>>
    /\ last_heartbeat = "unknown"
    /\ last_fix_type = -1
    /\ gps_data = NoData
    /\ armed = FALSE

\* The messages the flight controller sends.  lat and lon of
\* GLOBAL_POSITION_INT are integers in units of 10^-7 degree.
\* alt and relative_alt are in millimetres, vx, vy and vz in cm/s and hdg
\* in hundredths of a degree.
GlobalPositionInt(lat, lon, alt, relative_alt, vx, vy, vz, hdg) ==
    [type |-> "GLOBAL_POSITION_INT", lat |-> lat, lon |-> lon,
     alt |-> alt, relative_alt |-> relative_alt,
     vx |-> vx, vy |-> vy, vz |-> vz, hdg |-> hdg]

PositionMessages ==
    { GlobalPositionInt(401234567, 445000001, 1250500, 30250, 150, -75, 10, 9000),
      GlobalPositionInt(-12345678, -20000002, 80000, 12000, -320, 40, 0, 27050) }

FixMessages ==
    [type : {"GPS_RAW_INT"}, fix_type : {2, 3}, satellites_visible : {7}]

HeartbeatMessages == [type : {"HEARTBEAT"}, armed : BOOLEAN]

Messages == PositionMessages \cup FixMessages \cup HeartbeatMessages

ArmFlag(msg) == IF msg.armed THEN "armed" ELSE "disarmed"

\* A handler that stamps the snapshot anew on a GPS_RAW_INT message.
FixUpdate_restamps(stored, msg, t) ==
    [stored EXCEPT !.fix_quality = msg.fix_type,
                   !.satellites_visible = msg.satellites_visible,
                   !.timestamp = t]

\* The GPS_RAW_INT branch on an existing snapshot: two keys are assigned.
FixUpdate(stored, msg, t) ==
    [stored EXCEPT !.fix_quality = msg.fix_type,
                   !.satellites_visible = msg.satellites_visible]

\* process_message(msg) applied to the stored snapshot.
\* satellites_visible = -1 stands for a snapshot without that key.
\* obj tells the dict object the handler stores from a copy of it.
ProcessMessage(stored, msg, t) ==
    IF msg.type = "GLOBAL_POSITION_INT"
    THEN [lat |-> Deg(msg.lat, 0), lon |-> Deg(msg.lon, 0),
          alt |-> Rat(msg.alt, 1000),
          relative_alt |-> Rat(msg.relative_alt, 1000),
          vx |-> Rat(msg.vx, 100), vy |-> Rat(msg.vy, 100),
          vz |-> Rat(msg.vz, 100), hdg |-> Rat(msg.hdg, 100),
          timestamp |-> t,
          fix_quality |-> 3, satellites_visible |-> -1, obj |-> "store"]
    ELSE IF msg.type = "GPS_RAW_INT"
    THEN IF stored # NoData
         THEN FixUpdate(stored, msg, t)
         ELSE stored
    ELSE stored

\* A handler that still returns a snapshot exactly 5.0 seconds old.
IsFresh_inclusive(stored, t) == t - stored.timestamp <= StaleAfter

\* time.time() - self.last_gps_data['timestamp'] < 5.0
IsFresh(stored, t) == t - stored.timestamp < StaleAfter

\* A handler that returns its own dict object.
Copy_reference(stored) == stored

\* self.last_gps_data.copy(): a new dict with the items of the stored one
Copy(stored) == [stored EXCEPT !.obj = "copy"]

\* get_current_gps(): a copy of the stored snapshot, or None.
GetCurrentGps(stored, t) ==
    IF stored # NoData /\ IsFresh(stored, t) THEN Copy(stored) ELSE NoData

\* What a reference r shows after the handler has assigned keys of its dict
\* object in place, the object going from before to after: r shows the
\* change when it refers to that object, and a copy stays as it was.
Seen(r, before, after) ==
    IF r # NoData /\ r.obj = "store" /\ r = before THEN after ELSE r

\* The same for a queue item (frame, timestamp, gps_data) or the sentinel.
SeenInItem(item, before, after) ==
    IF item # NoData /\ item # Sentinel
    THEN [item EXCEPT !.gps_data = Seen(item.gps_data, before, after)]
    ELSE item

\* process_message assigns keys of the stored dict in place on a
\* GPS_RAW_INT, and binds a new dict on a GLOBAL_POSITION_INT.
AssignsInPlace(stored, msg) == msg.type = "GPS_RAW_INT" /\ stored # NoData

\* connection.recv_match(type='HEARTBEAT', blocking=False) on the unread
\* messages q: messages of other types are read and dropped until a
\* HEARTBEAT is found or nothing is left to read.
RECURSIVE RecvHeartbeat(_)
RecvHeartbeat(q) ==
    IF q = <<>> THEN [msg |-> NoData, rest |-> <<>>]
    ELSE IF Head(q).type = "HEARTBEAT" THEN [msg |-> Head(q), rest |-> Tail(q)]
    ELSE RecvHeartbeat(Tail(q))

\* is_armed() on link state (conn, q): the returned flag and the messages
\* left unread.
IsArmed(conn, q) ==
    IF ~conn THEN [armed |-> FALSE, rest |-> q]
    ELSE LET r == RecvHeartbeat(q)
         IN  [armed |-> IF r.msg # NoData THEN r.msg.armed ELSE FALSE,
              rest  |-> r.rest]

\* The passage of tick_len seconds.
Tick ==
    /\ now + tick_len <= MaxTime
    /\ now' = now + tick_len
    /\ UNCHANGED <<connected, last_gps_data, rx, last_heartbeat,
                   last_fix_type, gps_data, armed, feed, tick_len>>
    /\ UNCHANGED <<logVars, loopVars, visVars, fmtVars>>

\* The flight controller sends a message over the connected link.
FCSend ==
    /\ connected
    /\ Len(rx) < MaxRx
    /\ \E msg \in feed :
          /\ rx' = Append(rx, msg)
          /\ last_heartbeat' = IF msg.type = "HEARTBEAT" THEN ArmFlag(msg)
                                ELSE last_heartbeat
    /\ UNCHANGED <<now, connected, last_gps_data, last_fix_type, gps_data,
                   armed, feed, tick_len>>
    /\ UNCHANGED <<logVars, loopVars, visVars, fmtVars>>

\* The fix_type of the last GPS_RAW_INT handled, after msg is handled.
LastFixType(prev, msg) ==
    IF msg.type = "GPS_RAW_INT" THEN msg.fix_type ELSE prev

\* One iteration of data_reader_loop that reads a message.
data_reader_loop ==
    /\ connected
    /\ rx # <<>>
    /\ last_gps_data' = ProcessMessage(last_gps_data, Head(rx), now)
    /\ last_fix_type' = LastFixType(last_fix_type, Head(rx))
    /\ rx' = Tail(rx)
    /\ IF AssignsInPlace(last_gps_data, Head(rx))
       THEN /\ gps_data' = Seen(gps_data, last_gps_data, last_gps_data')
            /\ frame_data' =
                  SeenInItem(frame_data, last_gps_data, last_gps_data')
            /\ processing_queue' =
                  [i \in 1 .. Len(processing_queue) |->
                     SeenInItem(processing_queue[i], last_gps_data,
                                last_gps_data')]
       ELSE UNCHANGED <<gps_data, frame_data, processing_queue>>
    /\ UNCHANGED <<now, connected, last_heartbeat, armed, feed, tick_len>>
    /\ UNCHANGED <<running, status, components, maxsize, max_retries,
                   retry_count, mpc, hpc, exiting, current_time, last_put,
                   wpc, scene, log_limit, last_frame, frame_count>>
    /\ UNCHANGED <<logVars, visVars, fmtVars>>

\* recv_match raises in data_reader_loop: the link is lost.
ReaderError ==
    /\ connected
    /\ connected' = FALSE
    /\ UNCHANGED <<now, last_gps_data, rx, last_heartbeat, last_fix_type,
                   gps_data, armed, feed, tick_len>>
    /\ UNCHANGED <<logVars, loopVars, visVars, fmtVars>>

\* A call of get_current_gps().
get_current_gps ==
    /\ gps_data' = GetCurrentGps(last_gps_data, now)
    /\ UNCHANGED <<now, connected, last_gps_data, rx, last_heartbeat,
                   last_fix_type, armed, feed, tick_len>>
    /\ UNCHANGED <<logVars, loopVars, visVars, fmtVars>>

\* A call of is_armed().
is_armed ==
    /\ LET r == IsArmed(connected, rx)
       IN  /\ armed' = r.armed
           /\ rx' = r.rest
    /\ UNCHANGED <<now, connected, last_gps_data, last_heartbeat,
                   last_fix_type, gps_data, feed, tick_len>>
    /\ UNCHANGED <<logVars, loopVars, visVars, fmtVars>>

\* The handler after a successful connect(): wait_heartbeat() has read the
\* first HEARTBEAT and the reader thread runs.
InitConnected ==
    /\ InitLog
    /\ now = 0
    /\ connected = TRUE
    /\ last_gps_data = NoData
    /\ rx = <<>>
    /\ last_heartbeat \in {"armed", "disarmed"}
    /\ last_fix_type = -1
    /\ gps_data = NoData
    /\ armed = FALSE

NextTelemetry ==
    \/ Tick
    \/ FCSend
    \/ data_reader_loop
    \/ ReaderError
    \/ get_current_gps
    \/ is_armed

\* ------------------------------------------------------------------------
\* GPSDataProcessor.validate_gps_data
\* ------------------------------------------------------------------------

\* -90.0 <= lat <= 90.0 and -180.0 <= lon <= 180.0
InRange(c, limit_e7) ==
    /\ c.e7 >= -limit_e7
    /\ \/ c.e7 < limit_e7
       \/ c.e7 = limit_e7 /\ c.d8 = 0

validate_gps_data(g) ==
    /\ g # NoData
    /\ g.fix_quality >= MinFixQuality
    /\ InRange(g.lat, 900000000)
    /\ InRange(g.lon, 1800000000)

\* ------------------------------------------------------------------------
\* DroneVisionController
\* ------------------------------------------------------------------------

\* DroneVisionController.__init__ (the queue capacity and the retry limit
\* are set by each specification).
InitLoop ==
    /\ running = TRUE
    /\ status = "initializing"
    /\ components = "none"
    /\ processing_queue = <<>>
    /\ retry_count = 0
    /\ mpc = "start"
    /\ hpc = "none"
    /\ exiting = FALSE
    /\ current_time = 0
    /\ last_put = "none"
    /\ wpc = "not_started"
    /\ frame_data = NoData
    /\ last_frame = NoData
    /\ frame_count = 0

\* The statements of main_loop inside its try block: a SystemExit raised
\* there runs the finally clause.
TryRegion ==
    {"reconnect", "reconnect_heartbeat", "loop_top", "get_gps", "check_armed",
     "capture", "enqueue"}

\* A main loop that captures whatever the fix quality of the snapshot.
GpsUsable_anyfix(g) == g # NoData

\* not (not gps_data or gps_data.get('fix_quality', 0) < 3)
GpsUsable(g) == g # NoData /\ g.fix_quality >= MinFixQuality

\* A queue that accepts the item whatever its size.
PutNowait_unbounded(q, cap, item) ==
    [queue |-> Append(q, item), result |-> "queued"]

\* processing_queue.put_nowait(item): queue.Full is caught, the frame dropped.
PutNowait(q, cap, item) ==
    IF Len(q) < cap
    THEN [queue |-> Append(q, item), result |-> "queued"]
    ELSE [queue |-> q, result |-> "dropped"]

\* The main thread runs main_loop code (no signal handler on its stack).
MainAt(pc) == mpc = pc /\ hpc = "none"

\* A main loop that goes on to the flight controller after a failed
\* construction.
StartupAfter_proceeds(ok) == "initial_wait"

\* if not self.initialize_components(): return
\* if not self.wait_for_flight_controller(): ...
StartupAfter(ok) == IF ok THEN "initial_wait" ELSE "exited"

\* initialize_components(), and the entry of wait_for_flight_controller
\* when it returned True
MInitialize ==
    /\ MainAt("start")
    /\ \/ /\ components' = "constructed"
          /\ mpc' = StartupAfter(TRUE)
          /\ status' = "waiting_fc"
          /\ retry_count' = 0
       \/ /\ components' = "failed"        \* a constructor raised
          /\ mpc' = StartupAfter(FALSE)
          /\ status' = "error"
          /\ UNCHANGED retry_count
    /\ UNCHANGED <<running, processing_queue, maxsize, max_retries, hpc,
                   exiting, current_time, last_put, wpc, frame_data>>
    /\ UNCHANGED <<scene, log_limit, last_frame, frame_count>>
    /\ UNCHANGED <<visVars, fmtVars>>
    /\ UNCHANGED <<logVars, telVars>>

\* Where connect() waits in wait_heartbeat() during the wait entered at pc.
HeartbeatWait(pc) ==
    IF pc = "initial_wait" THEN "initial_heartbeat" ELSE "reconnect_heartbeat"

\* The retry loop of wait_for_flight_controller to which a failed connect()
\* waiting at pc returns.
RetryLoop(pc) ==
    IF pc = "initial_heartbeat" THEN "initial_wait" ELSE "reconnect"

\* One iteration of the retry loop of wait_for_flight_controller: a new
\* MAVLinkHandler and its connect() up to the call of wait_heartbeat().
MConnect ==
    /\ MainAt("initial_wait") \/ MainAt("reconnect")
    /\ running
    /\ retry_count < max_retries
    /\ last_gps_data' = NoData
    /\ last_fix_type' = -1
    /\ rx' = <<>>
    /\ connected' = FALSE
    /\ \/ /\ mpc' = HeartbeatWait(mpc)      \* the port is open
          /\ UNCHANGED retry_count
       \/ /\ retry_count' = retry_count + 1  \* connect() failed: sleep(5)
          /\ UNCHANGED mpc
    /\ UNCHANGED <<now, last_heartbeat, gps_data, armed, feed, tick_len>>
    /\ UNCHANGED <<running, status, processing_queue, maxsize, max_retries,
                   hpc, exiting, current_time, last_put, wpc, frame_data>>
    /\ UNCHANGED logVars
    /\ UNCHANGED <<components, scene, log_limit, last_frame, frame_count>>
    /\ UNCHANGED <<visVars, fmtVars>>

\* connect() in self.connection.wait_heartbeat(), which has no timeout: it
\* returns when a HEARTBEAT arrives, or raises when the link fails.
MHeartbeat ==
    /\ MainAt("initial_heartbeat") \/ MainAt("reconnect_heartbeat")
    /\ \/ /\ connected' = TRUE              \* connect() returns True
          /\ last_heartbeat' \in {"armed", "disarmed"}
          /\ status' = "ready"
          /\ IF mpc = "initial_heartbeat"
             THEN mpc' = "loop_top" /\ wpc' = "idle"
             ELSE mpc' = "get_gps" /\ UNCHANGED wpc
          /\ UNCHANGED retry_count
       \/ /\ retry_count' = retry_count + 1  \* connect() failed: sleep(5)
          /\ mpc' = RetryLoop(mpc)
          /\ UNCHANGED <<connected, last_heartbeat, status, wpc>>
    /\ UNCHANGED <<now, last_gps_data, rx, last_fix_type, gps_data, armed,
                   feed, tick_len>>
    /\ UNCHANGED <<running, processing_queue, maxsize, max_retries, hpc,
                   exiting, current_time, last_put, frame_data>>
    /\ UNCHANGED logVars
    /\ UNCHANGED <<components, scene, log_limit, last_frame, frame_count>>
    /\ UNCHANGED <<visVars, fmtVars>>

\* wait_for_flight_controller leaves its retry loop and returns False.
MGiveUp ==
    /\ MainAt("initial_wait") \/ MainAt("reconnect")
    /\ ~running \/ retry_count >= max_retries
    /\ status' = "error"
    /\ mpc' = IF mpc = "initial_wait" THEN "exited" ELSE "finally_put"
    /\ UNCHANGED <<running, processing_queue, maxsize, max_retries,
                   retry_count, hpc, exiting, current_time, last_put, wpc,
                   frame_data>>
    /\ UNCHANGED <<logVars, telVars>>
    /\ UNCHANGED <<components, scene, log_limit, last_frame, frame_count>>
    /\ UNCHANGED <<visVars, fmtVars>>

\* while self.running: current_time = time.time(); is_connected() check
MLoopTop ==
    /\ MainAt("loop_top")
    /\ IF ~running
       THEN /\ mpc' = "finally_put"
            /\ UNCHANGED <<status, retry_count, current_time, last_put,
                           gps_data, armed>>
       ELSE /\ current_time' = now
            /\ last_put' = "none"
            /\ gps_data' = NoData
            /\ armed' = FALSE
            /\ IF ~connected
               THEN /\ mpc' = "reconnect"
                    /\ status' = "waiting_fc"
                    /\ retry_count' = 0
               ELSE /\ mpc' = "get_gps"
                    /\ UNCHANGED <<status, retry_count>>
    /\ UNCHANGED <<now, connected, last_gps_data, rx, last_heartbeat,
                   last_fix_type, feed, tick_len>>
    /\ UNCHANGED <<running, processing_queue, maxsize, max_retries, hpc,
                   exiting, wpc, frame_data>>
    /\ UNCHANGED logVars
    /\ UNCHANGED <<components, scene, log_limit, last_frame, frame_count>>
    /\ UNCHANGED <<visVars, fmtVars>>

\* gps_data = self.mavlink.get_current_gps() and the fix-quality gate
MGetGps ==
    /\ MainAt("get_gps")
    /\ gps_data' = GetCurrentGps(last_gps_data, now)
    /\ mpc' = IF GpsUsable(gps_data') THEN "check_armed" ELSE "loop_top"
    /\ UNCHANGED <<now, connected, last_gps_data, rx, last_heartbeat,
                   last_fix_type, armed, feed, tick_len>>
    /\ UNCHANGED <<running, status, processing_queue, maxsize, max_retries,
                   retry_count, hpc, exiting, current_time, last_put, wpc,
                   frame_data>>
    /\ UNCHANGED logVars
    /\ UNCHANGED <<components, scene, log_limit, last_frame, frame_count>>
    /\ UNCHANGED <<visVars, fmtVars>>

\* if not self.mavlink.is_armed(): sleep, continue; set_status_led("active")
MCheckArmed ==
    /\ MainAt("check_armed")
    /\ LET r == IsArmed(connected, rx)
       IN  /\ armed' = r.armed
           /\ rx' = r.rest
           /\ IF r.armed
              THEN mpc' = "capture" /\ status' = "active"
              ELSE mpc' = "loop_top" /\ UNCHANGED status
    /\ UNCHANGED <<now, connected, last_gps_data, last_heartbeat,
                   last_fix_type, gps_data, feed, tick_len>>
    /\ UNCHANGED <<running, processing_queue, maxsize, max_retries,
                   retry_count, hpc, exiting, current_time, last_put, wpc,
                   frame_data>>
    /\ UNCHANGED logVars
    /\ UNCHANGED <<components, scene, log_limit, last_frame, frame_count>>
    /\ UNCHANGED <<visVars, fmtVars>>

\* frame = self.camera.capture_frame(); if frame is None: continue
MCapture ==
    /\ MainAt("capture")
    /\ mpc' \in {"enqueue", "loop_top"}
    /\ UNCHANGED <<running, status, processing_queue, maxsize, max_retries,
                   retry_count, hpc, exiting, current_time, last_put, wpc,
                   frame_data>>
    /\ UNCHANGED <<logVars, telVars>>
    /\ UNCHANGED <<components, scene, log_limit, last_frame, frame_count>>
    /\ UNCHANGED <<visVars, fmtVars>>

\* The item main_loop submits in this tick.
FrameItem == [timestamp |-> current_time, gps_data |-> gps_data]

\* frame_count += 1, in a run that follows the counter up to MaxCounted
Counted(n) == IF n < MaxCounted THEN n + 1 ELSE n

\* put_nowait((frame, timestamp, gps_data)), frame_count += 1, then the
\* sleep of the tick
MEnqueue ==
    /\ MainAt("enqueue")
    /\ LET r == PutNowait(processing_queue, maxsize, FrameItem)
       IN  /\ processing_queue' = r.queue
           /\ last_put' = r.result
    /\ frame_count' = Counted(frame_count)
    /\ mpc' = "loop_top"
    /\ UNCHANGED <<running, status, maxsize, max_retries, retry_count, hpc,
                   exiting, current_time, wpc, frame_data>>
    /\ UNCHANGED <<logVars, telVars>>
    /\ UNCHANGED <<components, scene, log_limit, last_frame>>
    /\ UNCHANGED <<visVars, fmtVars>>

\* finally: self.processing_queue.put(None), which waits for a free slot
MFinallyPut ==
    /\ MainAt("finally_put")
    /\ Len(processing_queue) < maxsize
    /\ processing_queue' = Append(processing_queue, Sentinel)
    /\ mpc' = "join"
    /\ UNCHANGED <<running, status, maxsize, max_retries, retry_count, hpc,
                   exiting, current_time, last_put, wpc, frame_data>>
    /\ UNCHANGED <<logVars, telVars>>
    /\ UNCHANGED <<components, scene, log_limit, last_frame, frame_count>>
    /\ UNCHANGED <<visVars, fmtVars>>

\* processing_thread.join(timeout=10): returns when the worker has ended
\* or after 10 seconds; a pending SystemExit then leaves main_loop.
MJoin ==
    /\ MainAt("join")
    /\ mpc' = IF exiting THEN "exited" ELSE "shutdown_call"
    /\ UNCHANGED <<running, status, processing_queue, maxsize, max_retries,
                   retry_count, hpc, exiting, current_time, last_put, wpc,
                   frame_data>>
    /\ UNCHANGED <<logVars, telVars>>
    /\ UNCHANGED <<components, scene, log_limit, last_frame, frame_count>>
    /\ UNCHANGED <<visVars, fmtVars>>

\* self.graceful_shutdown() at the end of main_loop
MShutdownCall ==
    /\ MainAt("shutdown_call")
    /\ IF ~running
       THEN mpc' = "exited" /\ UNCHANGED <<running, status, hpc>>
       ELSE /\ running' = FALSE
            /\ status' = "shutdown"
            /\ hpc' = "close_components"
            /\ UNCHANGED mpc
    /\ UNCHANGED <<processing_queue, maxsize, max_retries, retry_count,
                   exiting, current_time, last_put, wpc, frame_data>>
    /\ UNCHANGED <<logVars, telVars>>
    /\ UNCHANGED <<components, scene, log_limit, last_frame, frame_count>>
    /\ UNCHANGED <<visVars, fmtVars>>

\* SIGTERM or SIGINT: graceful_shutdown runs as signal handler on the main
\* thread, wherever main_loop is.  (With running already False the
\* handler returns at once.)
Signal ==
    /\ hpc = "none"
    /\ mpc # "exited"
    /\ running
    /\ running' = FALSE
    /\ status' = "shutdown"
    /\ hpc' = "close_components"
    /\ UNCHANGED <<processing_queue, maxsize, max_retries, retry_count, mpc,
                   exiting, current_time, last_put, wpc, frame_data>>
    /\ UNCHANGED <<logVars, telVars>>
    /\ UNCHANGED <<components, scene, log_limit, last_frame, frame_count>>
    /\ UNCHANGED <<visVars, fmtVars>>

\* graceful_shutdown: camera.close(), mavlink.close()
HCloseComponents ==
    /\ hpc = "close_components"
    /\ connected' = FALSE
    /\ hpc' = IF components = "constructed" THEN "flush_excel" ELSE "exit"
    /\ UNCHANGED <<now, last_gps_data, rx, last_heartbeat, last_fix_type,
                   gps_data, armed, feed, tick_len>>
    /\ UNCHANGED <<running, status, processing_queue, maxsize, max_retries,
                   retry_count, mpc, exiting, current_time, last_put, wpc,
                   frame_data>>
    /\ UNCHANGED logVars
    /\ UNCHANGED <<components, scene, log_limit, last_frame, frame_count>>
    /\ UNCHANGED <<visVars, fmtVars>>

\* graceful_shutdown: logger.close(), first half: flush_to_excel()
HFlushExcel ==
    /\ hpc = "flush_excel"
    /\ LET x == FlushExcel(data_buffer, workbook, ExcelOk)
       IN  /\ data_buffer' = x.buf
           /\ workbook' = x.wb
    /\ hpc' = "flush_csv"
    /\ UNCHANGED <<csv_buffer, csvfile, recorded, last_call, faults>>
    /\ UNCHANGED <<running, status, processing_queue, maxsize, max_retries,
                   retry_count, mpc, exiting, current_time, last_put, wpc,
                   frame_data>>
    /\ UNCHANGED telVars
    /\ UNCHANGED <<components, scene, log_limit, last_frame, frame_count>>
    /\ UNCHANGED <<visVars, fmtVars>>

\* graceful_shutdown: logger.close(), second half:
\* flush_to_competition_csv() and create_summary_report()
HFlushCsv ==
    /\ hpc = "flush_csv"
    /\ LET c == FlushCsv(csv_buffer, csvfile,
                         [ok |-> TRUE, written |-> Len(csv_buffer)])
       IN  /\ csv_buffer' = c.buf
           /\ csvfile' = c.file
    /\ last_call' = LastCall("close", ExcelOk, [ok |-> TRUE, written |-> 0], 0)
    /\ hpc' = "exit"
    /\ UNCHANGED <<data_buffer, workbook, recorded, faults>>
    /\ UNCHANGED <<running, status, processing_queue, maxsize, max_retries,
                   retry_count, mpc, exiting, current_time, last_put, wpc,
                   frame_data>>
    /\ UNCHANGED telVars
    /\ UNCHANGED <<components, scene, log_limit, last_frame, frame_count>>
    /\ UNCHANGED <<visVars, fmtVars>>

\* graceful_shutdown: sys.exit(0).  SystemExit unwinds main_loop: raised
\* inside the try block it runs the finally clause first.
HExit ==
    /\ hpc = "exit"
    /\ hpc' = "none"
    /\ IF mpc \in TryRegion
       THEN mpc' = "finally_put" /\ exiting' = TRUE
       ELSE mpc' = "exited" /\ UNCHANGED exiting
    /\ UNCHANGED <<running, status, processing_queue, maxsize, max_retries,
                   retry_count, current_time, last_put, wpc, frame_data>>
    /\ UNCHANGED <<logVars, telVars>>
    /\ UNCHANGED <<components, scene, log_limit, last_frame, frame_count>>
    /\ UNCHANGED <<visVars, fmtVars>>

\* process_frame_worker: while self.running
WCheck ==
    /\ wpc = "idle"
    /\ wpc' = IF running THEN "getting" ELSE "done"
    /\ UNCHANGED <<running, status, processing_queue, maxsize, max_retries,
                   retry_count, mpc, hpc, exiting, current_time, last_put,
                   frame_data>>
    /\ UNCHANGED <<logVars, telVars>>
    /\ UNCHANGED <<components, scene, log_limit, last_frame, frame_count>>
    /\ UNCHANGED <<visVars, fmtVars>>

\* process_frame_worker: processing_queue.get(timeout=1) returns an item
WGet ==
    /\ wpc = "getting"
    /\ processing_queue # <<>>
    /\ processing_queue' = Tail(processing_queue)
    /\ IF Head(processing_queue) = Sentinel
       THEN wpc' = "done" /\ UNCHANGED frame_data
       ELSE wpc' = "processing" /\ frame_data' = Head(processing_queue)
    /\ UNCHANGED <<running, status, maxsize, max_retries, retry_count, mpc,
                   hpc, exiting, current_time, last_put>>
    /\ UNCHANGED <<logVars, telVars>>
    /\ UNCHANGED <<components, scene, log_limit, last_frame, frame_count>>
    /\ UNCHANGED <<visVars, fmtVars>>

\* A get() without timeout: the worker goes on waiting for an item.
AfterEmpty_blocks == "getting"

\* except queue.Empty: continue, back to the test of self.running
AfterEmpty == "idle"

\* process_frame_worker: get(timeout=1) raises queue.Empty; continue
WTimeout ==
    /\ wpc = "getting"
    /\ processing_queue = <<>>
    /\ wpc' = AfterEmpty
    /\ UNCHANGED <<running, status, processing_queue, maxsize, max_retries,
                   retry_count, mpc, hpc, exiting, current_time, last_put,
                   frame_data>>
    /\ UNCHANGED <<logVars, telVars>>
    /\ UNCHANGED <<components, scene, log_limit, last_frame, frame_count>>
    /\ UNCHANGED <<visVars, fmtVars>>

\* The symbol_id values recognize_armenian_text yields.
SymbolIds == {None, 35}

\* A candidate of a frame, as the worker meets it: the confidence (in
\* hundredths) and symbol_id the recognizer finds for it, and what goes
\* wrong with it: nothing, extract_symbol_region raises ("extract"), the
\* recognition fails inside recognize_armenian_text ("ocr"), or the image
\* cannot be written by save_detection_image ("save").
Candidate(conf, sid, fault) ==
    [confidence |-> conf, symbol_id |-> sid, fault |-> fault]

Candidates ==
    { Candidate(81, 35, "none"),
      Candidate(80, 35, "none"),
      Candidate(81, None, "save"),
      Candidate(81, 35, "extract"),
      Candidate(81, 35, "ocr") }

\* The lists of at most n candidates detect_symbols can return.
CandidateLists(n) == UNION {[1 .. k -> Candidates] : k \in 0 .. n}

\* ocr_result['confidence'], in hundredths: recognize_armenian_text
\* returns confidence 0.0 when a step of it fails.
RecognizedConfidence(c) == IF c.fault = "ocr" THEN 0 ELSE c.confidence

\* ocr_result.get('symbol_id')
RecognizedSymbolId(c) == IF c.fault = "ocr" THEN None ELSE c.symbol_id

\* A worker that also logs a candidate at the threshold.
Qualifies_atleast(conf) == conf >= MinConfidence

\* if ocr_result['confidence'] > self.config.min_confidence
Qualifies(conf) == conf > MinConfidence

\* The body of the for loop on candidate c: the try block raises, calls
\* log_detection, or ends without a call.
CandidateStep(c) ==
    IF c.fault = "extract" THEN "raised"
    ELSE IF Qualifies(RecognizedConfidence(c)) THEN "logged"
    ELSE "skipped"

\* A worker that gives up the frame when a candidate raises.
Remaining_abort(rest, outcome) == IF outcome = "raised" THEN <<>> ELSE rest

\* except Exception inside the for loop: the error is logged and the loop
\* goes on with the candidates that remain.
Remaining(rest, outcome) == rest

\* The Detection Log as a value.
CurrentLog ==
    [data |-> data_buffer, csv |-> csv_buffer, wb |-> workbook,
     file |-> csvfile, rec |-> recorded, last |-> last_call]

CsvOk == [ok |-> TRUE, written |-> 0]

\* self.logger.log_detection(...) of candidate c under snapshot gps, with
\* file I/O that succeeds, on the Detection Log log.
LogCandidate(log, c, gps) ==
    LET d == [symbol_id |-> RecognizedSymbolId(c), lat |-> gps.lat,
              lon |-> gps.lon]
        a == AppendedTo(log.data, log.csv, Len(log.rec) + 1, d)
        r == LogDetectionOn(a, log.wb, log.file, ExcelOk, CsvOk)
    IN  [data |-> r.data, csv |-> r.csv, wb |-> r.wb, file |-> r.file,
         rec  |-> Append(log.rec, d),
         last |-> [op |-> "log_detection", pre_data |-> Len(log.data),
                   io_ok |-> TRUE, write_ok |-> TRUE,
                   auto_flush |-> r.auto_flush]]

\* for i, detection in enumerate(detections), from candidate i on: acc
\* holds the Detection Log, the indexes whose iteration ran (handled) and
\* the indexes for which log_detection was called (calls).
RECURSIVE ProcessCandidates(_, _, _, _)
ProcessCandidates(cands, i, gps, acc) ==
    IF cands = <<>> THEN acc
    ELSE LET c == Head(cands)
             outcome == CandidateStep(c)
         IN  ProcessCandidates(
                 Remaining(Tail(cands), outcome), i + 1, gps,
                 [log     |-> IF outcome = "logged"
                              THEN LogCandidate(acc.log, c, gps)
                              ELSE acc.log,
                  handled |-> Append(acc.handled, i),
                  calls   |-> IF outcome = "logged"
                              THEN Append(acc.calls, i)
                              ELSE acc.calls])

\* process_single_frame on item, whose frame yields the candidates cands.
process_single_frame(item, cands, log) ==
    IF ~validate_gps_data(item.gps_data)
    THEN [log |-> log, handled |-> <<>>, calls |-> <<>>]
    ELSE ProcessCandidates(cands, 1, item.gps_data,
                           [log |-> log, handled |-> <<>>, calls |-> <<>>])

\* The worker processes the item it took from the queue and returns to
\* the head of its loop.
WProcess ==
    /\ wpc = "processing"
    /\ wpc' = "idle"
    /\ frame_data' = NoData
    /\ \E cands \in scene :
          LET r == process_single_frame(frame_data, cands, CurrentLog)
          IN  /\ validate_gps_data(frame_data.gps_data) \/ cands = <<>>
              /\ Len(r.log.rec) <= log_limit
              /\ data_buffer' = r.log.data
              /\ workbook'    = r.log.wb
              /\ csv_buffer'  = r.log.csv
              /\ csvfile'     = r.log.file
              /\ recorded'    = r.log.rec
              /\ last_call'   = r.log.last
              /\ last_frame'  = [valid      |-> validate_gps_data(frame_data.gps_data),
                                 detections |-> cands,
                                 handled    |-> r.handled,
                                 calls      |-> r.calls]
    /\ UNCHANGED faults
    /\ UNCHANGED <<running, status, processing_queue, maxsize, max_retries,
                   retry_count, mpc, hpc, exiting, current_time, last_put>>
    /\ UNCHANGED telVars
    /\ UNCHANGED <<components, scene, log_limit, frame_count>>
    /\ UNCHANGED <<visVars, fmtVars>>

\* The scene of a run in which a frame shows no symbol, a symbol of the
\* table, or a symbol that is not in the table.
SparseScene ==
    { <<>>, <<Candidate(81, 35, "none")>>, <<Candidate(81, None, "none")>> }

\* The steps of the main thread, the worker thread, the telemetry reader
\* thread and the flight controller, without the clock.
NextPipeline ==
    \/ MInitialize
    \/ MConnect
    \/ MHeartbeat
    \/ MGiveUp
    \/ MLoopTop
    \/ MGetGps
    \/ MCheckArmed
    \/ MCapture
    \/ MEnqueue
    \/ MFinallyPut
    \/ MJoin
    \/ MShutdownCall
    \/ Signal
    \/ HCloseComponents
    \/ HFlushExcel
    \/ HFlushCsv
    \/ HExit
    \/ WCheck
    \/ WGet
    \/ WTimeout
    \/ WProcess
    \/ FCSend
    \/ data_reader_loop
    \/ ReaderError

NextLoop == NextPipeline \/ Tick

\* The feed of a flight controller that reports one position and its
\* heartbeats.
SteadyFeed ==
    { GlobalPositionInt(401234567, 445000001, 1250500, 30250, 150, -75, 10, 9000) }
      \cup HeartbeatMessages

\* The feed of a flight controller that also reports the loss of its fix.
LossyFeed ==
    SteadyFeed
      \cup { [type |-> "GPS_RAW_INT", fix_type |-> 2, satellites_visible |-> 7] }

\* ------------------------------------------------------------------------
\* SymbolDetector
\* ------------------------------------------------------------------------

\* symbol_detector.py:11   config.get('min_symbol_area', 2000)
MinSymbolArea == 2000

\* symbol_detector.py:12   config.get('max_symbol_area', 100000)
MaxSymbolArea == 100000

\* A contour: cv2.contourArea(contour) and the w, h of cv2.boundingRect.
Contour(area, w, h) == [area |-> area, w |-> w, h |-> h]

\* The contours of the runs of the detector: at and beyond each limit of
\* the three filters, and on each branch of the confidence score.
Contours ==
    { Contour(1999, 50, 50),     Contour(2000, 50, 50),
      Contour(100000, 400, 400), Contour(100001, 400, 400),
      Contour(3600, 40, 100),    Contour(3000, 39, 100),
      Contour(3600, 100, 40),    Contour(3000, 101, 40),
      Contour(4000, 100, 50),    Contour(2000, 200, 100),
      Contour(2000, 201, 100),   Contour(3700, 40, 100),
      Contour(6000, 100, 100),   Contour(4000, 76, 76),
      Contour(20000, 150, 150) }

\* The lists of at most n contours find_symbol_contours can return.
ContourLists(n) == UNION {[1 .. k -> Contours] : k \in 0 .. n}

\* A detector that forgets the upper limit of the area.
AreaInRange_nomax(area) == area >= MinSymbolArea

\* not (area < self.min_symbol_area or area > self.max_symbol_area)
AreaInRange(area) == ~(area < MinSymbolArea \/ area > MaxSymbolArea)

\* not (aspect_ratio < 0.4 or aspect_ratio > 2.5)
AspectInRange(aspect_ratio) ==
    ~(RLt(aspect_ratio, Rat(2, 5)) \/ RLt(Rat(5, 2), aspect_ratio))

\* not (fill_ratio < 0.1 or fill_ratio > 0.9)
FillInRange(fill_ratio) ==
    ~(RLt(fill_ratio, Rat(1, 10)) \/ RLt(Rat(9, 10), fill_ratio))

\* A score whose fill_score does not fall off above 0.6.
calculate_detection_confidence_nofalloff(area, aspect_ratio, fill_ratio) ==
    LET one == Rat(1, 1)
        area_score  == RMin(Rat(area, 20000), one)
        ratio_score == IF RLe(aspect_ratio, Rat(2, 1))
                       THEN RSub(one, RAbs(RSub(one, aspect_ratio)))
                       ELSE Rat(1, 2)
    IN  RDivInt(RAdd(RAdd(area_score, ratio_score), fill_ratio), 3)

calculate_detection_confidence(area, aspect_ratio, fill_ratio) ==
    LET one == Rat(1, 1)
        area_score  == RMin(Rat(area, 20000), one)
        ratio_score == IF RLe(aspect_ratio, Rat(2, 1))
                       THEN RSub(one, RAbs(RSub(one, aspect_ratio)))
                       ELSE Rat(1, 2)
        fill_score  == IF RLe(fill_ratio, Rat(3, 5))
                       THEN fill_ratio
                       ELSE RSub(one, fill_ratio)
    IN  RDivInt(RAdd(RAdd(area_score, ratio_score), fill_score), 3)

\* The body of the for loop of analyze_contours on the k-th contour c: the
\* detection it appends, or NoData when a filter rejects the contour.
\* The field contour stands for the position (x, y) of the bounding box.
Detection(c, k) ==
    IF ~AreaInRange(c.area) THEN NoData
    ELSE LET aspect_ratio == Rat(c.w, c.h)
         IN  IF ~AspectInRange(aspect_ratio) THEN NoData
             ELSE LET fill_ratio == Rat(c.area, c.w * c.h)
                  IN  IF ~FillInRange(fill_ratio) THEN NoData
                      ELSE [contour      |-> k,
                            area         |-> c.area,
                            aspect_ratio |-> aspect_ratio,
                            fill_ratio   |-> fill_ratio,
                            confidence   |->
                                calculate_detection_confidence(
                                    c.area, aspect_ratio, fill_ratio)]

\* The list detections after the for loop over the contours cs from the
\* k-th on.
RECURSIVE Appended_detections(_, _)
Appended_detections(cs, k) ==
    IF cs = <<>> THEN <<>>
    ELSE LET d == Detection(Head(cs), k)
             rest == Appended_detections(Tail(cs), k + 1)
         IN  IF d = NoData THEN rest ELSE <<d>> \o rest

\* A sort that puts a detection ahead of the earlier ones of equal
\* confidence.
StaysAhead_strict(e, d) == RLt(d.confidence, e.confidence)

\* list.sort(key=confidence, reverse=True) is stable: an element e stays
\* ahead of a later element d unless d's confidence is greater.
StaysAhead(e, d) == RLe(d.confidence, e.confidence)

\* The sorted list with d, the next element of the original list, put in.
InsertSorted(sorted, d) ==
    LET k == Cardinality({i \in 1 .. Len(sorted) : StaysAhead(sorted[i], d)})
    IN  SubSeq(sorted, 1, k) \o <<d>> \o SubSeq(sorted, k + 1, Len(sorted))

\* detections.sort(key=lambda x: x['confidence'], reverse=True)
RECURSIVE SortByConfidence(_, _)
SortByConfidence(sorted, ds) ==
    IF ds = <<>> THEN sorted
    ELSE SortByConfidence(InsertSorted(sorted, Head(ds)), Tail(ds))

\* analyze_contours(contours, frame_shape)
AnalyzeContours(cs) == SortByConfidence(<<>>, Appended_detections(cs, 1))

\* The arguments of the calls of calculate_detection_confidence:
\* (area, aspect_ratio, fill_ratio).
FeatureSamples ==
    { [area |-> 4000,   aspect_ratio |-> Rat(1, 1), fill_ratio |-> Rat(7, 10)],
      [area |-> 20000,  aspect_ratio |-> Rat(1, 1), fill_ratio |-> Rat(3, 5)],
      [area |-> 2000,   aspect_ratio |-> Rat(2, 1), fill_ratio |-> Rat(1, 10)],
      [area |-> 100000, aspect_ratio |-> Rat(5, 2), fill_ratio |-> Rat(9, 10)],
      [area |-> 2000,   aspect_ratio |-> Rat(2, 5), fill_ratio |-> Rat(9, 10)] }

\* The value v a call has returned, as the variables of the vision module
\* hold it (NoData before the call).
Returned(v) == [value |-> v]

\* A call of analyze_contours on the contours of the frame.
analyze_contours ==
    /\ detections' = Returned(AnalyzeContours(contours))
    /\ UNCHANGED <<contours, features, confidence, text, cleaned, symbol_id,
                   ocr_input, ocr_result>>
    /\ UNCHANGED <<logVars, telVars, loopVars, fmtVars>>

\* A call of calculate_detection_confidence on the features.
CallConfidence ==
    /\ confidence' = calculate_detection_confidence(
                         features.area, features.aspect_ratio,
                         features.fill_ratio)
    /\ UNCHANGED <<contours, detections, features, text, cleaned, symbol_id,
                   ocr_input, ocr_result>>
    /\ UNCHANGED <<logVars, telVars, loopVars, fmtVars>>

NextDetector ==
    \/ analyze_contours
    \/ CallConfidence

\* ------------------------------------------------------------------------
\* ArmenianOCRProcessor
\* ------------------------------------------------------------------------
\* A string is the sequence of the code points of its characters.

\* self.armenian_symbols: the 36 letters from U+0531 to U+0554, row by row.
armenian_symbols ==
    << 1329, 1330, 1331, 1332, 1333, 1334, 1335, 1336, 1337,
       1338, 1339, 1340, 1341, 1342, 1343, 1344, 1345, 1346,
       1347, 1348, 1349, 1350, 1351, 1352, 1353, 1354, 1355,
       1356, 1357, 1358, 1359, 1360, 1361, 1362, 1363, 1364 >>

\* {symbol: idx for idx, symbol in enumerate(self.armenian_symbols)}: a
\* later entry of the list replaces an earlier one of the same symbol.
symbol_to_id ==
    [c \in {armenian_symbols[i] : i \in 1 .. Len(armenian_symbols)} |->
        (CHOOSE i \in 1 .. Len(armenian_symbols) :
            /\ armenian_symbols[i] = c
            /\ \A j \in 1 .. Len(armenian_symbols) :
                   (armenian_symbols[j] = c) => j <= i) - 1]

\* The characters str.strip() and str.split() take for white space.
Whitespace ==
    {9, 10, 11, 12, 13, 28, 29, 30, 31, 32, 133, 160, 5760, 8232, 8233,
     8239, 8287, 12288} \cup (8192 .. 8202)

RECURSIVE LStrip(_)
LStrip(t) ==
    IF t # <<>> /\ Head(t) \in Whitespace THEN LStrip(Tail(t)) ELSE t

RECURSIVE RStrip(_)
RStrip(t) ==
    IF t # <<>> /\ t[Len(t)] \in Whitespace
    THEN RStrip(SubSeq(t, 1, Len(t) - 1))
    ELSE t

\* text.strip()
Strip(t) == RStrip(LStrip(t))

\* t.replace(c, r) for a character c and a string r
RECURSIVE Replace(_, _, _)
Replace(t, c, r) ==
    IF t = <<>> THEN <<>>
    ELSE (IF Head(t) = c THEN r ELSE <<Head(t)>>) \o Replace(Tail(t), c, r)

\* The words of t from its first character on, joined by single spaces;
\* t does not begin with white space.
RECURSIVE JoinWords(_)
JoinWords(t) ==
    IF t = <<>> THEN <<>>
    ELSE IF Head(t) \in Whitespace
         THEN (IF LStrip(t) = <<>> THEN <<>> ELSE <<32>>)
                  \o JoinWords(LStrip(t))
         ELSE <<Head(t)>> \o JoinWords(Tail(t))

\* ' '.join(cleaned.split())
SplitJoin(t) == JoinWords(LStrip(t))

\* A filter that keeps the characters strictly between the two limits.
InBlock_open(char) == 1328 < char /\ char < 1423

\* '԰' <= char <= '֏'
InBlock(char) == 1328 <= char /\ char <= 1423

\* The loop over cleaned that appends the characters of the block.
RECURSIVE armenian_chars(_)
armenian_chars(t) ==
    IF t = <<>> THEN <<>>
    ELSE (IF InBlock(Head(t)) THEN <<Head(t)>> ELSE <<>>)
             \o armenian_chars(Tail(t))

clean_armenian_text(t) ==
    IF t = <<>> THEN <<>>
    ELSE LET stripped == Replace(Replace(Strip(t), 10, <<32>>), 13, <<>>)
             cleaned1 == SplitJoin(stripped)
         IN  Strip(armenian_chars(cleaned1))

\* A lookup of the last character of the text.
FirstSymbol_last(symbol_text) == symbol_text[Len(symbol_text)]

\* first_symbol = symbol_text[0]
FirstSymbol(symbol_text) == symbol_text[1]

get_symbol_id(symbol_text) ==
    IF symbol_text = <<>> THEN None
    ELSE LET first_symbol == FirstSymbol(symbol_text)
         IN  IF first_symbol \in DOMAIN symbol_to_id
             THEN symbol_to_id[first_symbol]
             ELSE None

\* The characters of the texts of the runs: letters of the table, a
\* lower-case letter and a full stop of the block, the two limits of the
\* block and their neighbours, white space, a digit and a full stop.
TextChars ==
    {1329, 1364, 1377, 1417, 1328, 1423, 1327, 1424, 32, 10, 13, 55, 46}

\* The strings of at most n characters of the set chars.
StringsOver(chars, n) == UNION {[1 .. k -> chars] : k \in 0 .. n}

\* The texts of the runs: the strings of at most n characters, and every
\* letter of the table alone and before another character.
Texts(n) ==
    StringsOver(TextChars, n)
        \cup {<<armenian_symbols[i]>> \o t :
                i \in 1 .. Len(armenian_symbols),
                t \in StringsOver({1329, 32}, 1)}

\* A call of clean_armenian_text on the text.
CallClean ==
    /\ cleaned' = Returned(clean_armenian_text(text))
    /\ UNCHANGED <<contours, detections, features, confidence, text,
                   symbol_id, ocr_input, ocr_result>>
    /\ UNCHANGED <<logVars, telVars, loopVars, fmtVars>>

\* A call of get_symbol_id on the text.
CallGetSymbolId ==
    /\ symbol_id' = Returned(get_symbol_id(text))
    /\ UNCHANGED <<contours, detections, features, confidence, text,
                   cleaned, ocr_input, ocr_result>>
    /\ UNCHANGED <<logVars, telVars, loopVars, fmtVars>>

NextText ==
    \/ CallClean
    \/ CallGetSymbolId

\* The steps of recognize_armenian_text that can raise: the preprocessing,
\* the choice of the configuration, the two calls of the engine and the
\* conversion int(conf) of a confidence.
OcrFaults ==
    {"none", "preprocess_for_ocr", "get_dynamic_config", "image_to_string",
     "image_to_data", "int_conf"}

\* The calls of recognize_armenian_text: whether pytesseract was imported,
\* the region (None, of size 0, or an image), the step that raises, and
\* what the engine returns: the text and data['conf'].
OcrInputs ==
    [engine : BOOLEAN,
     region : {"None", "empty", "image"},
     fault  : OcrFaults,
     raw    : {<<>>, <<1329>>, <<32, 1364, 10>>, <<55>>, <<1377, 1329>>},
     conf   : {<<>>, <<-1>>, <<95>>, <<-1, 90, 80>>}]

\* return {'text': '', 'confidence': 0.0, 'symbol_id': None}
EmptyResult ==
    [text |-> <<>>, confidence |-> Rat(0, 1), symbol_id |-> None]

\* A handler that lets the exception e through to the caller.
OnException_reraise(e) == [raised |-> e]

\* except Exception as e: the empty result with the key 'error'.
OnException(e) ==
    [text |-> <<>>, confidence |-> Rat(0, 1), symbol_id |-> None,
     error |-> e]

RECURSIVE SumOf(_)
SumOf(q) == IF q = <<>> THEN 0 ELSE Head(q) + SumOf(Tail(q))

recognize_armenian_text(in) ==
    IF ~in.engine THEN EmptyResult
    ELSE IF in.region \in {"None", "empty"} THEN EmptyResult
    ELSE IF in.fault # "none" THEN OnException(in.fault)
    ELSE LET confidences == SelectSeq(in.conf, LAMBDA c : c > 0)
             avg_confidence ==
                 IF confidences # <<>>
                 THEN Rat(SumOf(confidences), Len(confidences))
                 ELSE Rat(0, 1)
             cleaned_text == clean_armenian_text(in.raw)
         IN  [text             |-> cleaned_text,
              confidence       |-> RDivInt(avg_confidence, 100),
              raw_text         |-> in.raw,
              word_confidences |-> confidences,
              symbol_id        |-> get_symbol_id(cleaned_text)]

\* A call of recognize_armenian_text.
CallRecognize ==
    /\ ocr_result' = recognize_armenian_text(ocr_input)
    /\ UNCHANGED <<contours, detections, features, confidence, text,
                   cleaned, symbol_id, ocr_input>>
    /\ UNCHANGED <<logVars, telVars, loopVars, fmtVars>>

NextRecognizer ==
    \/ CallRecognize


\* The vision module idle, for the runs of the other components.
IdleVision ==
    /\ contours = <<>>
    /\ detections = NoData
    /\ features = NoData
    /\ confidence = NoData
    /\ text = <<>>
    /\ cleaned = NoData
    /\ symbol_id = NoData
    /\ ocr_input = NoData
    /\ ocr_result = NoData

\* No call of format_for_competition on its own, for the runs of the
\* other components.
IdleFormat ==
    /\ coords = NoData
    /\ encoded = NoData

\* ------------------------------------------------------------------------
\* Specifications
\* ------------------------------------------------------------------------

\* The controller idle, for the runs of one component alone.
IdleLoop ==
    /\ InitLoop
    /\ scene = SparseScene /\ log_limit = MaxLogged
    /\ maxsize = QueueMaxSize
    /\ max_retries = MaxRetries

\* The Detection Log alone, driven by its caller.
InitSpecLog ==
    /\ IdleVision /\ IdleFormat
    /\ InitLog /\ InitTelemetry /\ IdleLoop
    /\ feed = Messages /\ tick_len = 1

SpecLog == InitSpecLog /\ [][NextLog]_vars

\* The telemetry handler alone, with its reader thread and its callers.
InitSpecTelemetry ==
    /\ IdleVision /\ IdleFormat
    /\ InitConnected /\ IdleLoop
    /\ feed = Messages /\ tick_len = 1

SpecTelemetry == InitSpecTelemetry /\ [][NextTelemetry]_vars

\* The whole pipeline from start-up, with the queue capacity and the retry
\* limit scaled down and a clock that advances by the staleness limit.
InitSpecLoop ==
    /\ IdleVision /\ IdleFormat
    /\ InitLog /\ InitTelemetry /\ InitLoop
    /\ feed = LossyFeed /\ tick_len = StaleAfter
    /\ scene = SparseScene /\ log_limit = MaxLogged
    /\ maxsize = SmallQueue
    /\ max_retries = FewRetries

SpecLoop == InitSpecLoop /\ [][NextLoop]_vars

\* The pipeline with the queue at its capacity of 20, under a steady feed
\* and within one second of the clock.
InitSpecQueue ==
    /\ IdleVision /\ IdleFormat
    /\ InitLog /\ InitTelemetry /\ InitLoop
    /\ feed = SteadyFeed /\ tick_len = 1
    /\ scene = SparseScene /\ log_limit = MaxLogged
    /\ maxsize = QueueMaxSize
    /\ max_retries = FewRetries

SpecQueue == InitSpecQueue /\ [][NextPipeline]_vars

\* The feed of a flight controller that also reports a latitude beyond
\* 90 degrees.
WildFeed ==
    SteadyFeed
      \cup { GlobalPositionInt(910000000, 445000001, 1250500, 30250,
                                150, -75, 10, 9000) }

\* The feed of an armed flight controller that reports a position, a
\* latitude beyond 90 degrees and the loss of its fix.
MixedFeed ==
    { m \in WildFeed \cup LossyFeed : m.type = "HEARTBEAT" => m.armed }

\* The scene of a run in which a frame shows no symbol or one symbol.
PlainScene == { <<>>, <<Candidate(81, 35, "none")>> }

\* The capture loop, the worker thread and the telemetry reader of a
\* running system: no signal arrives and the link stays up.
NextCapture ==
    \/ MLoopTop
    \/ MGetGps
    \/ MCheckArmed
    \/ MCapture
    \/ MEnqueue
    \/ WCheck
    \/ WGet
    \/ WTimeout
    \/ WProcess
    \/ FCSend
    \/ data_reader_loop
    \/ Tick

\* The state in which wait_for_flight_controller has returned True: the
\* components are constructed, the worker thread is started and main_loop
\* enters its capture loop.
InitSpecSnapshot ==
    /\ IdleVision /\ IdleFormat
    /\ InitLog
    /\ now = 0 /\ tick_len = StaleAfter /\ feed = MixedFeed
    /\ connected = TRUE /\ rx = <<>>
    /\ last_gps_data = NoData /\ gps_data = NoData
    /\ last_heartbeat = "armed" /\ armed = FALSE
    /\ last_fix_type = -1
    /\ running = TRUE /\ status = "ready" /\ components = "constructed"
    /\ processing_queue = <<>> /\ maxsize = SmallQueue
    /\ max_retries = FewRetries /\ retry_count = 0
    /\ mpc = "loop_top" /\ hpc = "none" /\ exiting = FALSE
    /\ current_time = 0 /\ last_put = "none"
    /\ wpc = "idle" /\ frame_data = NoData /\ last_frame = NoData
    /\ frame_count = 0
    /\ scene = PlainScene /\ log_limit = MaxLogged

SpecSnapshot == InitSpecSnapshot /\ [][NextCapture]_vars

\* The snapshots the handler can have stored at time 0 under WildFeed.
StoredSnapshots ==
    { ProcessMessage(NoData, msg, 0) :
        msg \in {m \in WildFeed : m.type = "GLOBAL_POSITION_INT"} }

\* The items main_loop can have queued at time 0 under WildFeed.
QueuedFrames ==
    { [timestamp |-> 0, gps_data |-> GetCurrentGps(stored, 0)] :
        stored \in StoredSnapshots }

NextWorker ==
    \/ WCheck
    \/ WGet
    \/ WTimeout
    \/ WProcess

\* The worker thread on the frames main_loop has queued: the state after
\* an enqueue of the capture loop, the worker not yet scheduled.
InitSpecWorker ==
    /\ IdleVision /\ IdleFormat
    /\ InitLog
    /\ now = 0 /\ tick_len = 1 /\ feed = WildFeed
    /\ connected = TRUE /\ rx = <<>>
    /\ last_heartbeat = "armed" /\ armed = TRUE
    /\ last_fix_type = -1
    /\ \E n \in 1 .. MaxFrames : processing_queue \in [1 .. n -> QueuedFrames]
    /\ gps_data = processing_queue[Len(processing_queue)].gps_data
    /\ last_gps_data \in StoredSnapshots
    /\ GetCurrentGps(last_gps_data, 0) = gps_data
    /\ running = TRUE /\ status = "active" /\ components = "constructed"
    /\ maxsize = QueueMaxSize
    /\ max_retries = MaxRetries /\ retry_count = 0
    /\ mpc = "loop_top" /\ hpc = "none" /\ exiting = FALSE
    /\ current_time = 0 /\ last_put = "queued"
    /\ wpc = "idle" /\ frame_data = NoData /\ last_frame = NoData
    /\ frame_count = IF Len(processing_queue) < MaxCounted
                     THEN Len(processing_queue) ELSE MaxCounted
    /\ scene = CandidateLists(MaxCandidates) /\ log_limit = MaxRecords

SpecWorker == InitSpecWorker /\ [][NextWorker]_vars

\* The detector alone, on the contours of one frame and on one set of
\* arguments of the confidence score.
InitSpecDetector ==
    /\ IdleFormat
    /\ InitLog /\ InitTelemetry /\ IdleLoop
    /\ feed = Messages /\ tick_len = 1
    /\ contours \in ContourLists(MaxContours)
    /\ features \in FeatureSamples
    /\ detections = NoData
    /\ confidence = NoData
    /\ text = <<>>
    /\ cleaned = NoData
    /\ symbol_id = NoData
    /\ ocr_input = NoData
    /\ ocr_result = NoData

SpecDetector == InitSpecDetector /\ [][NextDetector]_vars

\* The encoder of the coordinate file alone, on one pair of coordinates
\* after another.
InitSpecFormat ==
    /\ IdleVision
    /\ InitLog /\ InitTelemetry /\ IdleLoop
    /\ feed = Messages /\ tick_len = 1
    /\ coords \in [lat : Latitudes(MaxStep), lon : Longitudes(MaxStep)]
    /\ encoded = NoData

SpecFormat == InitSpecFormat /\ [][NextFormat]_vars

\* The two text functions of the recognizer alone, on one text.
InitSpecText ==
    /\ IdleFormat
    /\ InitLog /\ InitTelemetry /\ IdleLoop
    /\ feed = Messages /\ tick_len = 1
    /\ text \in Texts(MaxTextLen)
    /\ cleaned = NoData
    /\ symbol_id = NoData
    /\ contours = <<>>
    /\ detections = NoData
    /\ features = NoData
    /\ confidence = NoData
    /\ ocr_input = NoData
    /\ ocr_result = NoData

SpecText == InitSpecText /\ [][NextText]_vars

\* One call of recognize_armenian_text.
InitSpecRecognizer ==
    /\ IdleFormat
    /\ InitLog /\ InitTelemetry /\ IdleLoop
    /\ feed = Messages /\ tick_len = 1
    /\ ocr_input \in OcrInputs
    /\ ocr_result = NoData
    /\ text = <<>>
    /\ cleaned = NoData
    /\ symbol_id = NoData
    /\ contours = <<>>
    /\ detections = NoData
    /\ features = NoData
    /\ confidence = NoData

SpecRecognizer == InitSpecRecognizer /\ [][NextRecognizer]_vars

\* The steps of the worker thread: it is scheduled, and get(timeout=1)
\* returns or raises queue.Empty within a second, so the worker takes a
\* step when it can.
WorkerStep ==
    \/ WCheck
    \/ WGet
    \/ WTimeout
    \/ WProcess

\* The pipeline from start-up without the clock, with the queue capacity
\* and the retry limit scaled down, and a worker thread that is scheduled.
InitSpecShutdown ==
    /\ IdleVision /\ IdleFormat
    /\ InitLog /\ InitTelemetry /\ InitLoop
    /\ feed = SteadyFeed /\ tick_len = 1
    /\ scene = SparseScene /\ log_limit = MaxLogged
    /\ maxsize = SmallQueue
    /\ max_retries = FewRetries

SpecShutdown ==
    InitSpecShutdown /\ [][NextPipeline]_vars /\ WF_vars(WorkerStep)

\* The steps the main thread takes on its own during start-up: it is
\* scheduled, so it takes them when it can.  The arrival of a HEARTBEAT and
\* of a signal are not among them.
MainStartup ==
    \/ MInitialize
    \/ MConnect
    \/ MGiveUp
    \/ HCloseComponents
    \/ HFlushExcel
    \/ HFlushCsv
    \/ HExit

NextStartup ==
    \/ MInitialize
    \/ MConnect
    \/ MHeartbeat
    \/ MGiveUp
    \/ Signal
    \/ HCloseComponents
    \/ HFlushExcel
    \/ HFlushCsv
    \/ HExit

\* Start-up until the capture loop is entered, with the retry limit of 60.
InitSpecStartup ==
    /\ IdleVision /\ IdleFormat
    /\ InitLog /\ InitTelemetry /\ InitLoop
    /\ feed = SteadyFeed /\ tick_len = 1
    /\ scene = SparseScene /\ log_limit = MaxLogged
    /\ maxsize = QueueMaxSize
    /\ max_retries = MaxRetries

SpecStartup ==
    InitSpecStartup /\ [][NextStartup]_vars /\ WF_vars(MainStartup)

\* ------------------------------------------------------------------------
\* Properties of the Detection Log (SpecLog)
\* ------------------------------------------------------------------------

\* The workbook rows of the recorded detections, in arrival order.
RowsOf(rec) == [i \in 1 .. Len(rec) |-> detection_data(rec[i], i)]

HasSymbolId(d) == d.symbol_id # None

\* The coordinate lines of the recorded detections with a symbol_id.
LinesOf(rec) ==
    LET with_id == SelectSeq(rec, HasSymbolId)
    IN  [i \in 1 .. Len(with_id) |-> csv_line(competition_entry(with_id[i]))]

Range(s) == {s[i] : i \in 1 .. Len(s)}

\* C1: after close() has returned (here even in the case most favourable to
\* the code, where the file operations of close() itself all succeed) the
\* workbook holds every recorded detection exactly once in arrival order
\* and the coordinate file holds exactly one line per recorded detection
\* with a symbol_id.
C1_CloseLeavesEveryRecordOnce ==
    (last_call.op = "close" /\ last_call.io_ok)
        => /\ workbook = RowsOf(recorded)
           /\ csvfile  = LinesOf(recorded)

\* C2: every detection for which log_detection has returned is still in
\* data_buffer or is a row of the workbook.
C2_NoDetectionLost ==
    \A i \in 1 .. Len(recorded) :
        detection_data(recorded[i], i) \in Range(data_buffer) \cup Range(workbook)

\* C3: when file I/O succeeds, the log_detection call that brings
\* data_buffer to 5 records makes exactly one automatic flush and returns
\* with both buffers empty; a call that leaves fewer than 5 records makes
\* no flush and leaves its record in the buffer.
C3_FlushAtBatchSize ==
    (last_call.op = "log_detection" /\ last_call.io_ok)
        => /\ (last_call.pre_data + 1 = 5)
                => /\ last_call.auto_flush = 1
                   /\ data_buffer = <<>>
                   /\ csv_buffer = <<>>
           /\ (last_call.pre_data + 1 < 5)
                => /\ last_call.auto_flush = 0
                   /\ Len(data_buffer) = last_call.pre_data + 1

\* The fifth record of a batch has just been logged and flushed.
C3_Witness ==
    /\ last_call.op = "log_detection"
    /\ last_call.io_ok
    /\ last_call.pre_data = 4
    /\ last_call.auto_flush = 1
    /\ data_buffer = <<>>
    /\ Len(workbook) = 5

\* C9: every step leaves the rows already in the workbook as a prefix of
\* its rows, and the lines already in the coordinate file as a prefix of
\* its lines.
C9_AppendOnly ==
    [][IsPrefix(workbook, workbook') /\ IsPrefix(csvfile, csvfile')]_vars

\* C10: the lines of the coordinate file followed by the entries of
\* csv_buffer are, in order, the (symbol_id, lat_e7, lon_e7) triples of
\* the recorded detections with a symbol_id.
C10_CoordinateEntriesOneToOne ==
    csvfile \o csv_lines(csv_buffer) = LinesOf(recorded)

\* ------------------------------------------------------------------------
\* Properties of the telemetry handler (SpecTelemetry)
\* ------------------------------------------------------------------------

\* C7: get_current_gps returns a snapshot only when one is stored, is less
\* than 5 seconds old and has fix_quality >= 3, and None in every other case.
C7_AbsentUnlessFreshAndFixed ==
    [][get_current_gps =>
         (gps_data' # NoData <=>
            /\ last_gps_data # NoData
            /\ now - last_gps_data.timestamp < 5
            /\ last_gps_data.fix_quality >= 3)]_vars

\* C7 as amended: get_current_gps returns None when no snapshot is stored
\* or the stored one is 5 seconds old or older, and otherwise returns the
\* stored snapshot (a copy of it), whatever its fix_quality.
C7_AbsentIffMissingOrStale ==
    [][get_current_gps =>
         /\ (last_gps_data = NoData) => gps_data' = NoData
         /\ (last_gps_data # NoData /\ now - last_gps_data.timestamp >= 5)
                => gps_data' = NoData
         /\ (last_gps_data # NoData /\ now - last_gps_data.timestamp < 5)
                => gps_data' = Copy(last_gps_data)]_vars

\* get_current_gps has returned a fresh snapshot whose fix_quality is below 3.
C7_Witness ==
    /\ gps_data # NoData
    /\ gps_data.fix_quality < 3
    /\ gps_data = Copy(last_gps_data)
    /\ now - gps_data.timestamp < 5

\* C8: is_armed() returns the arm flag of the most recent heartbeat the
\* link received, and false when there was none or the link is down.
C8_ArmedIsLatestHeartbeat ==
    [][is_armed => armed' = (connected /\ last_heartbeat = "armed")]_vars

\* ------------------------------------------------------------------------
\* Properties of the capture loop, the worker and the shutdown path
\* ------------------------------------------------------------------------

\* The step adds a frame item (not the sentinel) to the processing queue.
FrameSubmitted ==
    /\ Len(processing_queue') > Len(processing_queue)
    /\ processing_queue'[Len(processing_queue')] # Sentinel

\* The gates of the tick are open: the snapshot fetched in this tick is
\* present with fix_quality >= 3 and is_armed() returned true.
GateOpen ==
    /\ gps_data # NoData
    /\ gps_data.fix_quality >= 3
    /\ armed

\* C4: capture_frame is called and a frame is submitted to the queue only
\* in a tick whose snapshot is present with fix_quality >= 3 and in which
\* the vehicle is armed, and is_armed() reports armed only over a
\* connected link.
C4_CaptureOnlyWhenGateOpen ==
    [][/\ MCapture => GateOpen
       /\ FrameSubmitted => (MEnqueue /\ GateOpen)
       /\ (MCheckArmed /\ armed') => connected]_vars

\* A frame has been submitted in a tick that passed both gates.
C4_Witness ==
    /\ last_put = "queued"
    /\ GateOpen
    /\ processing_queue # <<>>
    /\ status = "active"

\* C5: the queue never holds more than 20 items, and the enqueue of a frame
\* on a queue of 20 items drops the frame: the queue is unchanged and the
\* loop goes on to its next tick.
C5_DropOnFullQueue ==
    [][/\ Len(processing_queue) <= 20
       /\ Len(processing_queue') <= 20
       /\ (MEnqueue /\ Len(processing_queue) = 20)
            => /\ processing_queue' = processing_queue
               /\ last_put' = "dropped"
               /\ mpc' = "loop_top"]_vars

\* A frame has been dropped on a queue of 20 items.
C5_Witness ==
    /\ last_put = "dropped"
    /\ Len(processing_queue) = 20
    /\ mpc = "loop_top"

\* C6: no step of the shutdown path blocks forever: the main thread is
\* never left in put(None) on a full queue that the worker, having ended,
\* will not drain.
C6_ShutdownNeverBlocks ==
    ~ /\ mpc = "finally_put"
      /\ hpc = "none"
      /\ Len(processing_queue) >= maxsize
      /\ wpc = "done"

\* ------------------------------------------------------------------------
\* Properties of the worker (SpecWorker)
\* ------------------------------------------------------------------------

\* Number of log_detection calls made for candidate i of the last frame.
CallsFor(i) ==
    Cardinality({k \in 1 .. Len(last_frame.calls) : last_frame.calls[k] = i})

\* C13: in a frame the worker has processed, log_detection was called
\* exactly once for every candidate whose recognized confidence is above
\* 0.8 and not at all for a candidate whose confidence is 0.8 or less (or
\* that never reached recognition).
C13_LoggedIffAboveThreshold ==
    (last_frame # NoData /\ last_frame.valid)
        => \A i \in 1 .. Len(last_frame.detections) :
              LET c == last_frame.detections[i]
              IN  IF c.fault # "extract" /\ RecognizedConfidence(c) > 80
                  THEN CallsFor(i) = 1
                  ELSE CallsFor(i) = 0

\* A processed frame held a candidate at 0.81 that was logged and a
\* candidate at exactly 0.80 that was not.
C13_Witness ==
    /\ last_frame # NoData
    /\ last_frame.valid
    /\ \E i, j \in 1 .. Len(last_frame.detections) :
          /\ last_frame.detections[i] = Candidate(81, 35, "none")
          /\ CallsFor(i) = 1
          /\ last_frame.detections[j] = Candidate(80, 35, "none")
          /\ CallsFor(j) = 0
    /\ Len(recorded) >= 1

\* C14: whatever goes wrong with a candidate, the iteration of every
\* candidate of the frame runs, in order, and the worker returns to the
\* head of its loop for the next queued frame.
C14_ErrorSkipsOneCandidate ==
    [][WProcess =>
         /\ wpc' = "idle"
         /\ last_frame'.valid =>
               last_frame'.handled =
                   [i \in 1 .. Len(last_frame'.detections) |-> i]]_vars

\* The worker has logged the candidate that followed one whose extraction
\* raised, and has taken the next frame from the queue.
C14_Witness ==
    /\ wpc = "processing"
    /\ last_frame # NoData
    /\ Len(last_frame.detections) = 2
    /\ last_frame.detections[1].fault = "extract"
    /\ last_frame.handled = <<1, 2>>
    /\ last_frame.calls = <<2>>

\* ------------------------------------------------------------------------
\* Properties of start-up
\* ------------------------------------------------------------------------

\* The main thread is in wait_for_flight_controller.
InWaitForFC ==
    mpc \in {"initial_wait", "initial_heartbeat", "reconnect",
             "reconnect_heartbeat"}

\* C11: wait_for_flight_controller always ends: whenever the main thread is
\* in it, it later has left it (connected, given up after 60 failed
\* attempts, or shut down).
C11_WaitAlwaysEnds == InWaitForFC ~> ~InWaitForFC

\* C12: once a constructor has failed in initialize_components the status
\* is "error" and main_loop has returned: no connection was attempted, the
\* worker thread was not started, no frame was captured or submitted and
\* nothing was recorded.
C12_ConstructionFailureAborts ==
    (components = "failed")
        => /\ status = "error"
           /\ mpc = "exited"
           /\ hpc = "none"
           /\ ~connected
           /\ last_heartbeat = "unknown"
           /\ retry_count = 0
           /\ wpc = "not_started"
           /\ processing_queue = <<>>
           /\ last_put = "none"
           /\ frame_data = NoData
           /\ recorded = <<>>
           /\ workbook = <<>>
           /\ csvfile = <<>>

\* Construction has failed and start-up was aborted.
C12_Witness ==
    /\ components = "failed"
    /\ status = "error"
    /\ mpc = "exited"

\* C15: every candidate analyze_contours returns has its area within
\* [min_symbol_area, max_symbol_area], its aspect_ratio = w/h within
\* [0.4, 2.5], its fill_ratio = area/(w*h) within [0.1, 0.9] and a
\* confidence within [0, 1].
C15_AcceptedWithinLimits ==
    (detections # NoData) =>
        \A i \in 1 .. Len(detections.value) :
            LET d == detections.value[i]
                c == contours[d.contour]
            IN  /\ d.area = c.area
                /\ 2000 <= c.area /\ c.area <= 100000
                /\ d.aspect_ratio.num * c.h = c.w * d.aspect_ratio.den
                /\ 4 * c.h <= 10 * c.w /\ 10 * c.w <= 25 * c.h
                /\ d.fill_ratio.num * c.w * c.h = c.area * d.fill_ratio.den
                /\ c.w * c.h <= 10 * c.area /\ 10 * c.area <= 9 * c.w * c.h
                /\ 0 <= d.confidence.num
                /\ d.confidence.num <= d.confidence.den

\* A call returned a candidate whose area is on the upper limit, from a
\* frame that also held a contour the filters reject.
C15_Witness ==
    /\ detections # NoData
    /\ Len(detections.value) = 1
    /\ Len(contours) = 2
    /\ detections.value[1].area = 100000

\* The contour of the scenario: 4000 px2, aspect_ratio 1.0, fill_ratio 0.7.
ScenarioContour ==
    /\ features.area = 4000
    /\ features.aspect_ratio = Rat(1, 1)
    /\ features.fill_ratio = Rat(7, 10)

\* C16 as stated: the contour of 4000 px2 with aspect_ratio 1.0 and
\* fill_ratio 0.7 passes the three filters and its confidence is greater
\* than 0.6.
C16_ScenarioAboveSixTenths ==
    (ScenarioContour /\ confidence # NoData) =>
        /\ AreaInRange(features.area)
        /\ AspectInRange(features.aspect_ratio)
        /\ FillInRange(features.fill_ratio)
        /\ 6 * confidence.den < 10 * confidence.num

\* C16 amended: the contour of 4000 px2 with aspect_ratio 1.0 and
\* fill_ratio 0.7 passes the three filters and its confidence is
\* (0.2 + 1.0 + 0.3) / 3 = 0.5.
C16_ScenarioIsOneHalf ==
    (ScenarioContour /\ confidence # NoData) =>
        /\ 2000 <= features.area /\ features.area <= 100000
        /\ AspectInRange(features.aspect_ratio)
        /\ FillInRange(features.fill_ratio)
        /\ 2 * confidence.num = confidence.den

\* The confidence of the contour of the scenario has been computed.
C16_Witness ==
    /\ ScenarioContour
    /\ confidence # NoData
    /\ confidence = Rat(1, 2)

\* C17: the candidates of one call are in descending order of confidence,
\* and of two candidates of equal confidence the one whose contour was
\* discovered first comes first.
C17_SortedStable ==
    (detections # NoData) =>
        \A i, j \in 1 .. Len(detections.value) :
            (i < j) =>
                LET a == detections.value[i].confidence
                    b == detections.value[j].confidence
                IN  \/ b.num * a.den < a.num * b.den
                    \/ /\ b.num * a.den = a.num * b.den
                       /\ detections.value[i].contour < detections.value[j].contour

\* A call returned two candidates of equal confidence.
C17_Witness ==
    /\ detections # NoData
    /\ Len(detections.value) = 2
    /\ detections.value[1].confidence = detections.value[2].confidence
    /\ detections.value[1].contour = 1

\* C18: get_symbol_id returns a value that the first character of the
\* text alone determines: the position, from 0, of that character among the
\* 36 letters U+0531..U+0554 of the table when it is one of them, and None
\* when the text is empty or begins with another character.
C18_IdOfFirstCharacter ==
    (symbol_id # NoData) =>
        symbol_id.value =
            IF text = <<>> THEN -1
            ELSE IF 1329 <= text[1] /\ text[1] <= 1364
                 THEN text[1] - 1329
                 ELSE -1

\* The last letter of the table, before another letter, got the ID 35.
C18_Witness ==
    /\ symbol_id # NoData
    /\ Len(text) = 2
    /\ text[1] = 1364
    /\ text[2] = 1329
    /\ symbol_id.value = 35

\* C19: clean_armenian_text returns the subsequence, in order, of the
\* characters of its input that are in U+0530..U+058F, and so no white
\* space, no digit, no ASCII punctuation and no character of another
\* script.
C19_BlockSubsequence ==
    (cleaned # NoData) =>
        /\ cleaned.value =
               SelectSeq(text, LAMBDA c : c \in 1328 .. 1423)
        /\ \A i \in 1 .. Len(cleaned.value) :
               /\ cleaned.value[i] \notin Whitespace
               /\ cleaned.value[i] \notin 32 .. 127
               /\ cleaned.value[i] \notin {1327, 1424}

\* A text of a letter between a digit and white space was cleaned to the
\* letter.
C19_Witness ==
    /\ cleaned # NoData
    /\ text = <<55, 1329, 10>>
    /\ cleaned.value = <<1329>>

\* A call of recognize_armenian_text that cannot recognize: no engine, no
\* region or an empty one, or a step that raises.
OcrFails ==
    \/ ~ocr_input.engine
    \/ ocr_input.region \in {"None", "empty"}
    \/ ocr_input.fault # "none"

\* C20: recognize_armenian_text returns a result to its caller from
\* every call, and the result of a call without the engine, without a
\* region, on an empty region or with a failing step has empty text,
\* confidence 0 and symbol_id None.
C20_FailureGivesEmptyResult ==
    (ocr_result # NoData) =>
        /\ {"text", "confidence", "symbol_id"} \subseteq DOMAIN ocr_result
        /\ OcrFails =>
               /\ ocr_result.text = <<>>
               /\ ocr_result.confidence.num = 0
               /\ ocr_result.symbol_id = -1

\* A call whose engine raised returned the empty result.
C20_Witness ==
    /\ ocr_result # NoData
    /\ ocr_input.engine
    /\ ocr_input.region = "image"
    /\ ocr_input.fault = "image_to_data"
    /\ ocr_input.raw = <<1329>>
    /\ ocr_result.text = <<>>
    /\ ocr_result.symbol_id = -1

\* ------------------------------------------------------------------------
\* Properties of the encoder of the coordinate file (SpecFormat)
\* ------------------------------------------------------------------------

\* c times 10^7 is no further from the integer n than from any other.
NearestE7(c, n) ==
    IF c.d8 < 5 THEN n = c.e7
    ELSE IF c.d8 > 5 THEN n = c.e7 + 1
    ELSE n \in {c.e7, c.e7 + 1}

\* C21: for every latitude and longitude in range, lat_e7 and lon_e7 are
\* the value times 10^7 rounded to the nearest integer, and
\* round(lat_e7 / 1e7, 7) = round(lat, 7), likewise for the longitude.
C21_RoundTrip ==
    (encoded # NoData) =>
        /\ NearestE7(coords.lat, encoded[1])
        /\ NearestE7(coords.lon, encoded[2])
        /\ Round7(Decode(encoded[1])) = Round7(coords.lat)
        /\ Round7(Decode(encoded[2])) = Round7(coords.lon)

\* C21 amended: lat_e7 and lon_e7 are the value times 10^7 rounded to the
\* nearest integer, and round(lat_e7 / 1e7, 7) = round(lat, 7) for every
\* latitude that is not exactly halfway between two multiples of 10^-7
\* degree, likewise for the longitude.
C21_RoundTripOffHalfway ==
    (encoded # NoData) =>
        /\ NearestE7(coords.lat, encoded[1])
        /\ NearestE7(coords.lon, encoded[2])
        /\ (coords.lat.d8 # 5) =>
               Round7(Decode(encoded[1])) = Round7(coords.lat)
        /\ (coords.lon.d8 # 5) =>
               Round7(Decode(encoded[2])) = Round7(coords.lon)

\* The encoder has rounded a latitude up and a longitude down.
C21_Witness ==
    /\ encoded # NoData
    /\ coords.lat.e7 = 734154402 /\ coords.lat.d8 = 6
    /\ coords.lon.e7 = 445000001 /\ coords.lon.d8 = 4
    /\ encoded = <<734154403, 445000001>>

\* ------------------------------------------------------------------------
\* Properties of the shutdown path (SpecLoop)
\* ------------------------------------------------------------------------

\* C22: whenever the Detection Log is being closed and the worker thread
\* was started, the sentinel has been sent to the worker and the join of
\* the worker has returned (the main thread is at the call of
\* graceful_shutdown that ends main_loop), and the camera and the telemetry
\* link are closed.
C22_LogClosedAfterJoin ==
    (hpc \in {"flush_excel", "flush_csv"} /\ wpc # "not_started")
        => /\ mpc = "shutdown_call"
           /\ ~connected

\* C23: when the worker thread has ended, no frame that was enqueued is
\* left in the queue: every one was handed to process_single_frame.
C23_WorkerDrainsQueue ==
    (wpc = "done")
        => \A i \in 1 .. Len(processing_queue) :
               processing_queue[i] = Sentinel

\* C24: when the process has terminated (main_loop has ended after a
\* shutdown that closed the Detection Log, and the worker thread has
\* ended), data_buffer and csv_buffer are empty.
C24_BuffersEmptyAtExit ==
    (mpc = "exited" /\ hpc = "none" /\ ~running /\ wpc = "done"
        /\ components = "constructed")
        => /\ data_buffer = <<>>
           /\ csv_buffer = <<>>

\* C25: at the end of a tick of the capture loop the status is "active"
\* only if the tick passed both gates: its snapshot is present with
\* fix_quality >= 3 and the vehicle is armed.
C25_ActiveOnlyInPassingTick ==
    (MainAt("loop_top") /\ running /\ status = "active") => GateOpen

\* ------------------------------------------------------------------------
\* Properties of the flushes of the Detection Log (SpecLog)
\* ------------------------------------------------------------------------

\* C26: a call of flush_to_excel whose workbook write fails returns with
\* data_buffer and the workbook unchanged; a call changes data_buffer only
\* if its write succeeded, and then it empties data_buffer and the records
\* it held are, in order, the last rows of the workbook.
C26_FailedWriteKeepsBuffer ==
    [][flush_to_excel =>
         /\ (~last_call'.write_ok)
               => /\ data_buffer' = data_buffer
                  /\ workbook' = workbook
         /\ (data_buffer' # data_buffer)
               => /\ last_call'.write_ok
                  /\ data_buffer' = <<>>
                  /\ Len(workbook') >= Len(data_buffer)
                  /\ SubSeq(workbook',
                            Len(workbook') - Len(data_buffer) + 1,
                            Len(workbook')) = data_buffer]_vars

\* A flush_to_excel whose write failed has left its two records in
\* data_buffer.
C26_Witness ==
    /\ last_call.op = "flush_to_excel"
    /\ ~last_call.write_ok
    /\ Len(data_buffer) = 2
    /\ Len(recorded) = 2
    /\ workbook = <<>>

\* C27: the coordinate file never holds more lines than there are recorded
\* detections with a symbol_id: no entry is written twice.
C27_EntryWrittenAtMostOnce ==
    Len(csvfile) <= Len(LinesOf(recorded))

\* ------------------------------------------------------------------------
\* Properties of the capture loop and the worker under shutdown (SpecLoop)
\* ------------------------------------------------------------------------

\* C28: the count main_loop keeps goes up by exactly one with every frame
\* dropped on a full queue and stays as it is with every frame that was
\* enqueued (as far as the run follows the counter).
C28_DropsAreCounted ==
    [][(MEnqueue /\ frame_count < MaxCounted) =>
          IF last_put' = "dropped"
          THEN frame_count' = frame_count + 1
          ELSE frame_count' = frame_count]_vars

\* The worker thread runs and its termination was asked for: the stop
\* flag is set or the sentinel is in the queue.
StopAsked ==
    /\ wpc \notin {"not_started", "done"}
    /\ \/ ~running
       \/ \E i \in 1 .. Len(processing_queue) : processing_queue[i] = Sentinel

\* C29: once the stop flag is set or the sentinel is in the queue, the
\* worker thread later ends, also when it waits on an empty queue.
C29_WorkerObservesStop == StopAsked ~> (wpc = "done")

\* The worker has ended on the stop flag alone, from its wait on an empty
\* queue: the handler still runs and the sentinel has not been sent.
C29_Witness ==
    /\ wpc = "done"
    /\ ~running
    /\ hpc = "close_components"
    /\ mpc = "loop_top"
    /\ processing_queue = <<>>

\* The keys of a snapshot a GPS_RAW_INT message assigns.
FixKeys == {"fix_quality", "satellites_visible"}

\* C30: a position message replaces the whole stored snapshot; a fix-quality
\* message changes only fix_quality and satellites_visible of an existing
\* snapshot, leaving position, velocity, heading and timestamp as they were,
\* and leaves the store absent when there is no snapshot yet.
C30_MessageEffect ==
    [][data_reader_loop =>
         LET msg == Head(rx)
         IN  /\ (msg.type = "GLOBAL_POSITION_INT") =>
                  /\ last_gps_data'.lat = Deg(msg.lat, 0)
                  /\ last_gps_data'.lon = Deg(msg.lon, 0)
                  /\ last_gps_data'.alt.num * 1000
                        = msg.alt * last_gps_data'.alt.den
                  /\ last_gps_data'.relative_alt.num * 1000
                        = msg.relative_alt * last_gps_data'.relative_alt.den
                  /\ last_gps_data'.vx.num * 100 = msg.vx * last_gps_data'.vx.den
                  /\ last_gps_data'.vy.num * 100 = msg.vy * last_gps_data'.vy.den
                  /\ last_gps_data'.vz.num * 100 = msg.vz * last_gps_data'.vz.den
                  /\ last_gps_data'.hdg.num * 100
                        = msg.hdg * last_gps_data'.hdg.den
                  /\ last_gps_data'.timestamp = now
                  /\ last_gps_data'.fix_quality = 3
                  /\ last_gps_data'.satellites_visible = -1
             /\ (msg.type = "GPS_RAW_INT" /\ last_gps_data = NoData) =>
                  last_gps_data' = NoData
             /\ (msg.type = "GPS_RAW_INT" /\ last_gps_data # NoData) =>
                  /\ last_gps_data'.fix_quality = msg.fix_type
                  /\ last_gps_data'.satellites_visible = msg.satellites_visible
                  /\ DOMAIN last_gps_data' = DOMAIN last_gps_data
                  /\ \A k \in DOMAIN last_gps_data \ FixKeys :
                        last_gps_data'[k] = last_gps_data[k]]_vars

\* A fix-quality message was handled after the clock moved on from the
\* position message whose snapshot it updated.
C30_Witness ==
    /\ last_gps_data # NoData
    /\ last_gps_data.fix_quality = 2
    /\ last_gps_data.satellites_visible = 7
    /\ last_gps_data.lat.e7 = -12345678
    /\ last_gps_data.hdg = Rat(27050, 100)
    /\ last_gps_data.timestamp < now

\* The last GPS_RAW_INT the handler processed reported a fix type below 3.
FixLost == last_fix_type \in 0 .. (MinFixQuality - 1)

\* C31: while the most recent fix-quality message reported a fix type below
\* 3, get_current_gps hands no snapshot with fix_quality >= 3 to the loop
\* and the tick ends without a capture or an enqueue, whatever the order of
\* the position and fix-quality messages.
C31_NoCaptureWhileFixLost ==
    [][(MGetGps /\ FixLost) =>
          /\ ~(gps_data' # NoData /\ gps_data'.fix_quality >= 3)
          /\ mpc' = "loop_top"]_vars

\* The snapshot of a queued item had fix_quality >= 3 and was less than 5
\* seconds old at the time of its tick.
QueuedSnapshotUsable(item) ==
    /\ item.gps_data # NoData
    /\ item.gps_data.fix_quality >= 3
    /\ item.timestamp - item.gps_data.timestamp < 5

\* Coordinates with latitude in [-90, 90] and longitude in [-180, 180].
OnTheGlobe(lat, lon) ==
    /\ -900000000 <= lat.e7
    /\ lat.e7 < 900000000 \/ (lat.e7 = 900000000 /\ lat.d8 = 0)
    /\ -1800000000 <= lon.e7
    /\ lon.e7 < 1800000000 \/ (lon.e7 = 1800000000 /\ lon.d8 = 0)

\* C32: every queued item other than the sentinel holds a snapshot that had
\* fix_quality >= 3 and was less than 5 seconds old when the tick that
\* enqueued it fetched it; the snapshots held by the loop, the queue and the
\* worker do not change when the telemetry reader updates the store; and
\* every detection the worker records carries the coordinates of the
\* snapshot of its frame, which lie on the globe.
C32_QueuedSnapshotsStable ==
    [][/\ \A i \in 1 .. Len(processing_queue') :
            processing_queue'[i] # Sentinel
                => QueuedSnapshotUsable(processing_queue'[i])
       /\ (MGetGps /\ gps_data' # NoData)
            => now - gps_data'.timestamp < 5
       /\ (MEnqueue /\ last_put' = "queued")
            => /\ processing_queue' = Append(processing_queue,
                     [timestamp |-> current_time, gps_data |-> gps_data])
               /\ gps_data.fix_quality >= 3
       /\ data_reader_loop
            => /\ processing_queue' = processing_queue
               /\ frame_data' = frame_data
               /\ gps_data' = gps_data
       /\ WProcess
            => /\ Len(recorded') >= Len(recorded)
               /\ \A i \in 1 .. Len(recorded') :
                     IF i <= Len(recorded)
                     THEN recorded'[i] = recorded[i]
                     ELSE /\ recorded'[i].lat = frame_data.gps_data.lat
                          /\ recorded'[i].lon = frame_data.gps_data.lon
                          /\ OnTheGlobe(recorded'[i].lat, recorded'[i].lon)]_vars

\* A detection is recorded, and a frame waits in the queue with the
\* snapshot of its tick while the reader has lowered the fix quality of the
\* stored snapshot it was copied from.
C32_Witness ==
    /\ recorded # <<>>
    /\ processing_queue # <<>>
    /\ processing_queue[1] # Sentinel
    /\ processing_queue[1].gps_data.fix_quality = 3
    /\ last_gps_data # NoData
    /\ last_gps_data.fix_quality = 2
    /\ last_gps_data.timestamp = processing_queue[1].gps_data.timestamp
    /\ last_gps_data.lat = processing_queue[1].gps_data.lat

====
